---------------------------- MODULE Spec2Model ----------------------------
(***************************************************************************)
(* Job orchestration of the chess analysis API (src/src/api.py), served by *)
(* the server processes that run_api.py starts.                            *)
(*                                                                         *)
(* Every server process runs one event loop: a request handler or the part *)
(* of a background task between two awaits runs without interleaving with  *)
(* anything else of the same server process (cur[s]).  The job files under *)
(* data/jobs are shared by the server processes, so the file operations of *)
(* one server process interleave with those of the other one: each file    *)
(* operation (exists, read, open for writing, dump, unlink) is one step.   *)
(* Each server process owns its own ProcessPoolExecutor (pool[s]).         *)
(***************************************************************************)
EXTENDS Integers, Sequences, FiniteSets, TLC

\* ---------------------------------------------------------------- bounds
\* the number of jobs submitted when the handlers of the server processes are
\* serialized (Spec)
MaxJobs == 2

\* the number of jobs submitted when the file operations of the server
\* processes interleave (SpecRace)
RaceJobs == 1

\* the number of jobs submitted when the responses to the clients are
\* observed (SpecApi)
ApiJobs == 1

\* the last reading of the wall clock, where the timestamps are observed
MaxClock == 2

\* the number of jobs submitted where server processes are killed and started
\* again (SpecRestart)
RestartJobs == 2

\* the number of jobs submitted where the reads of the records are observed
\* (SpecRead)
ReadJobs == 1

\* the evaluations handed to the classifier are the multiples of 50
\* centipawns from -50 * EvalSteps to 50 * EvalSteps
EvalSteps == 5

\* the number of jobs submitted where server processes shut down
\* (SpecShutdown)
ShutdownJobs == 2

\* the largest number of openings in the statistics handed to the
\* recommendation engine
MaxOpenings == 2

\* recommendation_engine.py:79  the number of moves from which the boost of
\* the priority score is capped
BoostMoves == 50

\* recommendation_engine.py:129  the number of moves from which the
\* confidence is capped
ConfidenceMoves == 100

\* the longest list of classified moves handed to the statistics
MaxMoves == 3

\* the number of jobs submitted where the timestamps are observed (SpecClock)
ClockJobs == 1

\* api.py:48  config 'api.max_workers' (the model runs a small pool)
max_workers == 1

\* api.py:205 config 'api.job_timeout', default 1800 seconds
timeout_seconds == 1800

\* run_api.py:28  uvicorn.run(..., workers=2)
NumServers == 2

Jobs == 1..MaxJobs
Servers == 1..NumServers

\* values the work function (analyze_games) can return: one that json.dump
\* can write and one that it cannot (save_job has no default= hook)
Results == {"score42", "nonjson"}

\* messages of the errors the work function can raise
Errors == {"boom"}

JsonSerializable(r) == r # "nonjson"

\* ------------------------------------------------------------- JobStatus
PENDING == "pending"
PROCESSING == "processing"
COMPLETED == "completed"
FAILED == "failed"

JobStatus == {PENDING, PROCESSING, COMPLETED, FAILED}

Terminal == {COMPLETED, FAILED}

\* --------------------------------------------------------------- records
\* A job record is the dictionary save_job writes.  An optional key is a set
\* with no element (key absent) or one element (its value).  Texts are
\* sequences of pieces, so that formatting is concatenation.
\* no timestamp
NoTime == [type |-> "", v |-> 0]

\* the datetime object of the clock reading t
Dt(t) == [type |-> "datetime", v |-> t]

\* datetime.isoformat(): the string that writes the datetime x
IsoFormat(x) == [type |-> "str", v |-> x.v]

\* datetime.fromisoformat(): the datetime a string writes
FromIsoFormat(x) == [type |-> "datetime", v |-> x.v]

NoData ==
  [job_id |-> 0, status |-> "", message |-> <<>>, created_at |-> NoTime,
   updated_at |-> NoTime, pgn_file_path |-> 0,
   results |-> {}, error |-> {}, completed_at |-> {}, processing_time |-> {}]

NoFile == [kind |-> "none", data |-> NoData]

PartialFile == [kind |-> "partial", data |-> NoData]

JsonFile(d) == [kind |-> "json", data |-> d]

\* no keyword arguments
NoKw == [results |-> {}, error |-> {}, completed_at |-> {}, processing_time |-> {}]

NoUpd == [status |-> "", message |-> <<>>, kw |-> NoKw]

Idle ==
  [op |-> "idle", job |-> 0, step |-> "", phase |-> "", loaded |-> NoData,
   upd |-> NoUpd, at |-> 0]

NoFut == [st |-> "none", val |-> ""]

VARIABLES
  files,        \* files[j]: data/jobs/<job_id>.json
  tmpf,         \* tmpf[j]: the staged upload (pgn_file_path) exists
  pc,           \* pc[j]: where the background task process_job(j) stands
  owner,        \* owner[j]: the server process that accepted job j (0: none)
  cur,          \* cur[s]: what the event loop of server process s is running
  pool,         \* pool[s]: the ProcessPoolExecutor of server process s
  fut,          \* fut[j]: the future of run_analysis_in_process for job j
  seenTerminal, \* seenTerminal[j]: the first terminal status a read returned
  lastStatus,   \* lastStatus[j]: the status of the last record written for j
  dispatched,   \* dispatched[j]: how often job j was handed to a pool
  deleted,      \* deleted[j]: an observed Delete of j answered 'deleted successfully'
  track,        \* the operations whose responses are observed in resp
  resp,         \* the last observed response to a client
  now,          \* the last reading of the wall clock (datetime.now())
  start_time,   \* start_time[j]: the local variable start_time of process_job(j)
  ran,          \* ran[j]: when the work function of j started and returned
  call          \* the last application of a function of the analysis pipeline

vars ==
  <<files, tmpf, pc, owner, cur, pool, fut, seenTerminal, lastStatus, dispatched,
    deleted, track, resp, now, start_time, ran, call>>

NoPool == [queue |-> <<>>, running |-> {}, broken |-> FALSE]

\* the work function has neither started nor returned (-1: no time)
NoRan == [from |-> -1, to |-> -1]

\* no function applied yet
NoCall == [fn |-> "", args |-> <<>>, out |-> ""]

\* no response yet
NoResp == [op |-> "", job |-> 0, code |-> 0, status |-> "", ids |-> {}, seq |-> 0]

\* the state after the start of the server processes, before any request
Start ==
  /\ files = [j \in Jobs |-> NoFile]
  /\ tmpf = [j \in Jobs |-> FALSE]
  /\ pc = [j \in Jobs |-> "unborn"]
  /\ owner = [j \in Jobs |-> 0]
  /\ cur = [s \in Servers |-> Idle]
  /\ pool = [s \in Servers |-> NoPool]
  /\ fut = [j \in Jobs |-> NoFut]
  /\ seenTerminal = [j \in Jobs |-> {}]
  /\ lastStatus = [j \in Jobs |-> ""]
  /\ dispatched = [j \in Jobs |-> 0]
  /\ deleted = [j \in Jobs |-> FALSE]
  /\ resp = NoResp
  /\ now = 0
  /\ start_time = [j \in Jobs |-> 0]
  /\ ran = [j \in Jobs |-> NoRan]
  /\ call = NoCall

Init == Start /\ track = {}

\* the response of operation op to a request about job: the HTTP status code,
\* the status field of the body and the ids of a listing.  seq alternates, so
\* that two equal responses in a row are two events.
Respond(op, job, code, status, ids) ==
  resp' = IF op \in track
            THEN [op |-> op, job |-> job, code |-> code, status |-> status,
                  ids |-> ids, seq |-> 1 - resp.seq]
            ELSE resp

\* --------------------------------------------------------- pure functions
\* str(e) of the exceptions the orchestrator's own code can raise
FileNotFoundError == "FileNotFoundError"
JSONDecodeError == "JSONDecodeError"
TypeError == "TypeError: Object is not JSON serializable"
BrokenProcessPool == "BrokenProcessPool"

\* api.py:243  f"Analysis timed out after {timeout_seconds} seconds"
TimeoutMsg == <<"Analysis timed out after ", ToString(timeout_seconds), " seconds">>

\* api.py:237, 248  f"Analysis failed: {...}"
FailedMsg(m) == <<"Analysis failed: ">> \o m


\* Merge where the keyword arguments are lost
Merge_nokw(d, u) == [d EXCEPT !.status = u.status, !.message = u.message]

\* api.py:120-125  job_data.update({...status, message, updated_at, **kwargs})
Merge(d, u) ==
  [d EXCEPT !.status = u.status,
            !.message = u.message,
            !.results = IF u.kw.results # {} THEN u.kw.results ELSE @,
            !.error = IF u.kw.error # {} THEN u.kw.error ELSE @,
            !.completed_at = IF u.kw.completed_at # {} THEN u.kw.completed_at ELSE @,
            !.processing_time = IF u.kw.processing_time # {} THEN u.kw.processing_time ELSE @]

\* Updated where updated_at stays what was loaded
Updated_stale(d, u, t) == Merge(d, u)

\* api.py:120-125  the dictionary update_job_status saves: the loaded one with
\* the new status, message, keyword arguments and updated_at = the reading t
Updated(d, u, t) == [Merge(d, u) EXCEPT !.updated_at = Dt(t)]

\* api.py:87-92  save_job: every value that is a datetime becomes its
\* isoformat string, every other value is written as it is
Serializable(x) == IF x.type = "datetime" THEN IsoFormat(x) ELSE x

Encode(d) ==
  [d EXCEPT !.created_at = Serializable(@),
            !.updated_at = Serializable(@),
            !.completed_at = {Serializable(x) : x \in @}]

\* Decode where completed_at stays the string that was read
Decode_strcompleted(e) ==
  [e EXCEPT !.created_at = IF @ # NoTime THEN FromIsoFormat(@) ELSE @,
            !.updated_at = IF @ # NoTime THEN FromIsoFormat(@) ELSE @]

\* api.py:107-109  load_job: created_at, updated_at and completed_at, where
\* the key is present and its value is not empty, become datetimes again
Decode(e) ==
  [e EXCEPT !.created_at = IF @ # NoTime THEN FromIsoFormat(@) ELSE @,
            !.updated_at = IF @ # NoTime THEN FromIsoFormat(@) ELSE @,
            !.completed_at = {FromIsoFormat(x) : x \in @}]

\* datetime.now(): a reading of the wall clock, never earlier than the last
\* one; the clock stands still where no observation depends on it
Later == IF "clock" \in track THEN now..MaxClock ELSE {now}

\* api.py:94-95  json.dump can write every value of the dictionary
Dumpable(d) == \A r \in d.results : JsonSerializable(r)

\* api.py:283-290 the record submit_job creates
NewRecord(j, t) ==
  [NoData EXCEPT !.job_id = j, !.status = PENDING,
                 !.message = <<"Job submitted successfully">>,
                 !.created_at = Dt(t), !.updated_at = Dt(t),
                 !.pgn_file_path = j]


\* ProcessingUpd where the status is left Pending
ProcessingUpd_pending ==
  [status |-> PENDING, message |-> <<"Processing PGN file...">>, kw |-> NoKw]

\* api.py:201
ProcessingUpd == [status |-> PROCESSING, message |-> <<"Processing PGN file...">>, kw |-> NoKw]

\* api.py:224-231
\* with completed_at = the reading t and processing_time = e
CompletedUpd(r, t, e) ==
  [status |-> COMPLETED, message |-> <<"Analysis completed successfully">>,
   kw |-> [NoKw EXCEPT !.results = {r}, !.completed_at = {Dt(t)},
                       !.processing_time = {e}]]


\* FailedUpd where the formatted message is stored as the error
FailedUpd_msg(m) ==
  [status |-> FAILED, message |-> FailedMsg(m), kw |-> [NoKw EXCEPT !.error = {FailedMsg(m)}]]

\* api.py:234-239
FailedUpd(m) ==
  [status |-> FAILED, message |-> FailedMsg(m), kw |-> [NoKw EXCEPT !.error = {m}]]


\* TimeoutUpd where the timeout is reported like any other exception
TimeoutUpd_generic ==
  [status |-> FAILED, message |-> FailedMsg(<<"TimeoutError">>),
   kw |-> [NoKw EXCEPT !.error = {FailedMsg(<<"TimeoutError">>)}]]

\* api.py:243-245
TimeoutUpd ==
  [status |-> FAILED, message |-> TimeoutMsg, kw |-> [NoKw EXCEPT !.error = {TimeoutMsg}]]

\* api.py:248-250
HandlerUpd(e) ==
  [status |-> FAILED, message |-> FailedMsg(<<e>>),
   kw |-> [NoKw EXCEPT !.error = {FailedMsg(<<e>>)}]]


\* the ids a client can name: the ids Submit has returned, and ids that no
\* Submit has produced
Known(j) == pc[j] # "submitting"

\* ------------------------------------------------------------ submit_job
\* uuid.uuid4(): an id no earlier Submit has produced
FreshId == CHOOSE j \in Jobs : pc[j] = "unborn" /\ \A k \in Jobs : pc[k] = "unborn" => j <= k

\* the names of the uploaded files, as sequences of characters
FileNames ==
  {<<"a", ".", "p", "g", "n">>, <<"A", ".", "P", "G", "N">>, <<"a", ".", "p", "g">>,
   <<"p", "g", "n">>, <<"a", ".", "p", "g", "n", ".", "t", "x", "t">>}

\* str.lower() on the characters the names are made of
LowerChar(c) ==
  CASE c = "A" -> "a"
    [] c = "P" -> "p"
    [] c = "G" -> "g"
    [] c = "N" -> "n"
    [] OTHER -> c

Lower(name) == [i \in 1..Len(name) |-> LowerChar(name[i])]

\* str.endswith
EndsWith(name, suffix) ==
  /\ Len(name) >= Len(suffix)
  /\ SubSeq(name, Len(name) - Len(suffix) + 1, Len(name)) = suffix

\* api.py:268  pgn_file.filename.lower().endswith('.pgn')
IsPgnName(name) == EndsWith(Lower(name), <<".", "p", "g", "n">>)

\* SubmitInvalid where the upload is staged before the name is checked
SubmitInvalid_staged(s, name) ==
  /\ cur[s].op = "idle"
  /\ ~IsPgnName(name)
  /\ tmpf' = [j \in Jobs |-> tmpf[j] \/ (pc[j] = "unborn" /\ \A k \in Jobs : pc[k] = "unborn" => j <= k)]
  /\ Respond("submit", 0, 400, "", {})
  /\ UNCHANGED <<files, pc, owner, cur, pool, fut, seenTerminal, lastStatus, dispatched,
                 deleted, track, now, start_time, ran, call>>

\* api.py:268-269  the file name fails the check: HTTPException 400, before
\* an id is generated, the upload staged or a record written
SubmitInvalid(s, name) ==
  /\ cur[s].op = "idle"
  /\ ~IsPgnName(name)
  /\ Respond("submit", 0, 400, "", {})
  /\ UNCHANGED <<files, tmpf, pc, owner, cur, pool, fut, seenTerminal, lastStatus, dispatched,
                 deleted, track, now, start_time, ran, call>>

\* SubmitOpen where the background task is scheduled before the record is
\* written
SubmitOpen_scheduled(s, limit) ==
  /\ cur[s].op = "idle"
  /\ \E k \in 1..limit : pc[k] = "unborn"
  /\ \E t \in Later :
       LET j == CHOOSE j \in Jobs : pc[j] = "unborn" /\ \A k \in Jobs : pc[k] = "unborn" => j <= k IN
         /\ now' = t
         /\ tmpf' = [tmpf EXCEPT ![j] = TRUE]
         /\ files' = [files EXCEPT ![j] = PartialFile]
         /\ pc' = [pc EXCEPT ![j] = "scheduled"]
         /\ owner' = [owner EXCEPT ![j] = s]
         /\ cur' = [cur EXCEPT ![s] = [Idle EXCEPT !.op = "submit", !.job = j, !.step = "dump",
                                                  !.at = t]]
  /\ UNCHANGED <<pool, fut, seenTerminal, lastStatus, dispatched, deleted, track, resp, start_time, ran, call>>

\* api.py:272-283, 94  created_at = datetime.now(), stage the upload, save_job
\* opens the job file
SubmitOpen(s, limit) ==
  /\ cur[s].op = "idle"
  /\ \E k \in 1..limit : pc[k] = "unborn"
  /\ \E t \in Later :
       LET j == FreshId IN
         /\ now' = t
         /\ tmpf' = [tmpf EXCEPT ![j] = TRUE]
         /\ files' = [files EXCEPT ![j] = PartialFile]
         /\ pc' = [pc EXCEPT ![j] = "submitting"]
         /\ owner' = [owner EXCEPT ![j] = s]
         /\ cur' = [cur EXCEPT ![s] = [Idle EXCEPT !.op = "submit", !.job = j, !.step = "dump",
                                                  !.at = t]]
  /\ UNCHANGED <<pool, fut, seenTerminal, lastStatus, dispatched, deleted, track, resp, start_time, ran, call>>

\* api.py:95, 293-301  json.dump of the Pending record, add_task, response
SubmitDump(s) ==
  /\ cur[s].op = "submit"
  /\ LET j == cur[s].job IN
       /\ files' = [files EXCEPT ![j] = JsonFile(Encode(NewRecord(j, cur[s].at)))]
       /\ pc' = [pc EXCEPT ![j] = "scheduled"]
       /\ lastStatus' = [lastStatus EXCEPT ![j] = PENDING]
       /\ Respond("submit", j, 200, PENDING, {})
  /\ cur' = [cur EXCEPT ![s] = Idle]
  /\ UNCHANGED <<tmpf, owner, pool, fut, seenTerminal, dispatched, deleted, track, now, start_time, ran, call>>

\* ----------------------------------------------------------- process_job
TaskOf(s) == cur[s].job

\* the update_job_status call of the running phase has returned
\* (api.py:201 -> 207; api.py:232, 240, 245, 250 -> the task ends)
UpdateReturns(s) ==
  LET j == TaskOf(s) IN
  IF cur[s].phase = "processing"
    THEN /\ cur' = [cur EXCEPT ![s] = [@ EXCEPT !.step = "handoff", !.loaded = NoData, !.upd = NoUpd,
                                               !.at = 0]]
         /\ pc' = pc
    ELSE /\ cur' = [cur EXCEPT ![s] = Idle]
         /\ pc' = [pc EXCEPT ![j] = "done"]

\* exception e is raised inside process_job: inside the try block it is
\* caught by 'except Exception' (api.py:247-250); inside an except block it
\* leaves the task
Raise(s, e) ==
  LET j == TaskOf(s) IN
  IF cur[s].phase \in {"processing", "completed", "failed"}
    THEN /\ cur' = [cur EXCEPT ![s] = [Idle EXCEPT !.op = "task", !.job = j, !.phase = "handler",
                                                   !.step = "exists", !.upd = HandlerUpd(e)]]
         /\ pc' = pc
    ELSE /\ cur' = [cur EXCEPT ![s] = Idle]
         /\ pc' = [pc EXCEPT ![j] = "raised"]

\* api.py:197-201  the background task starts: start_time = datetime.now()
ProcessJobStart(j) ==
  /\ pc[j] = "scheduled"
  /\ cur[owner[j]].op = "idle"
  /\ \E t \in Later : now' = t /\ start_time' = [start_time EXCEPT ![j] = t]
  /\ pc' = [pc EXCEPT ![j] = "running"]
  /\ cur' = [cur EXCEPT ![owner[j]] = [Idle EXCEPT !.op = "task", !.job = j, !.phase = "processing",
                                                   !.step = "exists", !.upd = ProcessingUpd]]
  /\ UNCHANGED <<files, tmpf, owner, pool, fut, seenTerminal, lastStatus, dispatched, deleted, track, resp, ran, call>>

\* api.py:100-101, 116-118  load_job: job_file.exists()
LoadJobExists(s) ==
  /\ cur[s].op = "task" /\ cur[s].step = "exists"
  /\ IF files[TaskOf(s)].kind = "none"
       THEN UpdateReturns(s)
       ELSE cur' = [cur EXCEPT ![s].step = "read"] /\ pc' = pc
  /\ UNCHANGED <<files, tmpf, owner, pool, fut, seenTerminal, lastStatus, dispatched, deleted, track, resp, now, start_time, ran, call>>

\* api.py:103-111, 123  load_job: open, json.load and the conversion of the
\* timestamps; then update_job_status reads the clock for updated_at
LoadJobRead(s) ==
  /\ cur[s].op = "task" /\ cur[s].step = "read"
  /\ LET f == files[TaskOf(s)] IN
       CASE f.kind = "none" -> Raise(s, FileNotFoundError) /\ now' = now
         [] f.kind = "partial" -> Raise(s, JSONDecodeError) /\ now' = now
         [] OTHER ->
              \E t \in Later :
                /\ now' = t
                /\ cur' = [cur EXCEPT ![s].step = "open", ![s].loaded = Decode(f.data),
                                      ![s].at = t]
                /\ pc' = pc
  /\ UNCHANGED <<files, tmpf, owner, pool, fut, seenTerminal, lastStatus, dispatched, deleted, track, resp, start_time, ran, call>>

\* api.py:94  save_job: open(job_file, 'w') creates or truncates the file
SaveJobOpen(s) ==
  /\ cur[s].op = "task" /\ cur[s].step = "open"
  /\ files' = [files EXCEPT ![TaskOf(s)] = PartialFile]
  /\ cur' = [cur EXCEPT ![s].step = "dump"]
  /\ UNCHANGED <<tmpf, pc, owner, pool, fut, seenTerminal, lastStatus, dispatched, deleted, track, resp, now, start_time, ran, call>>


\* SaveJobDump where an exception follows the write of the Completed record
SaveJobDump_raises(s) ==
  /\ cur[s].op = "task" /\ cur[s].step = "dump"
  /\ LET j == TaskOf(s)
         d == Updated(cur[s].loaded, cur[s].upd, cur[s].at) IN
       IF Dumpable(d)
         THEN /\ files' = [files EXCEPT ![j] = IF @.kind = "partial" THEN JsonFile(Encode(d)) ELSE @]
              /\ lastStatus' = [lastStatus EXCEPT ![j] = IF files[j].kind = "partial" THEN d.status ELSE @]
              /\ IF cur[s].phase = "completed" THEN Raise(s, TypeError) ELSE UpdateReturns(s)
         ELSE /\ files' = files
              /\ lastStatus' = lastStatus
              /\ Raise(s, TypeError)
  /\ UNCHANGED <<tmpf, owner, pool, fut, seenTerminal, dispatched, deleted, track, resp, now, start_time, ran, call>>

\* api.py:95  save_job: json.dump into the open file, close.  A file that
\* was unlinked after the open is written without becoming visible again.
SaveJobDump(s) ==
  /\ cur[s].op = "task" /\ cur[s].step = "dump"
  /\ LET j == TaskOf(s)
         d == Updated(cur[s].loaded, cur[s].upd, cur[s].at) IN
       IF Dumpable(d)
         THEN /\ files' = [files EXCEPT ![j] = IF @.kind = "partial" THEN JsonFile(Encode(d)) ELSE @]
              /\ lastStatus' = [lastStatus EXCEPT ![j] = IF files[j].kind = "partial" THEN d.status ELSE @]
              /\ UpdateReturns(s)
         ELSE /\ files' = files
              /\ lastStatus' = lastStatus
              /\ Raise(s, TypeError)
  /\ UNCHANGED <<tmpf, owner, pool, fut, seenTerminal, dispatched, deleted, track, resp, now, start_time, ran, call>>

\* api.py:207-217  loop.run_in_executor(process_pool, run_analysis_in_process, ...)
\* and the await of wait_for
RunInExecutor(s) ==
  /\ cur[s].op = "task" /\ cur[s].step = "handoff"
  /\ LET j == TaskOf(s) IN
       IF pool[s].broken
         THEN /\ Raise(s, BrokenProcessPool)
              /\ UNCHANGED <<pool, fut, dispatched>>
         ELSE /\ pool' = [pool EXCEPT ![s].queue = Append(@, j)]
              /\ fut' = [fut EXCEPT ![j] = [st |-> "pending", val |-> ""]]
              /\ dispatched' = [dispatched EXCEPT ![j] = @ + 1]
              /\ pc' = [pc EXCEPT ![j] = "waiting"]
              /\ cur' = [cur EXCEPT ![s] = Idle]
  /\ UNCHANGED <<files, tmpf, owner, seenTerminal, lastStatus, deleted, track, resp, now, start_time, ran, call>>

\* what process_job does with what the await of wait_for delivers
\* (api.py:223-240 for a returned dictionary, api.py:247-250 for an exception
\* of the pool)
ResumeUpd(f, t, e) ==
  CASE f.st = "ok" -> CompletedUpd(f.val, t, e)
    [] f.st = "err" -> FailedUpd(<<f.val>>)
    [] OTHER -> HandlerUpd(BrokenProcessPool)

ResumePhase(f) ==
  CASE f.st = "ok" -> "completed"
    [] f.st = "err" -> "failed"
    [] OTHER -> "handler"

\* api.py:208-223  the future is done: the task resumes with its outcome.
\* After a returned dictionary completed_at = datetime.now() and
\* processing_time = (completed_at - start_time).total_seconds()
Resume(j) ==
  /\ pc[j] = "waiting"
  /\ fut[j].st \in {"ok", "err", "broken"}
  /\ cur[owner[j]].op = "idle"
  /\ pc' = [pc EXCEPT ![j] = "running"]
  /\ \E t \in (IF fut[j].st = "broken" THEN {now} ELSE Later) :
       /\ now' = t
       /\ cur' = [cur EXCEPT ![owner[j]] =
                    [Idle EXCEPT !.op = "task", !.job = j, !.step = "exists",
                                 !.phase = ResumePhase(fut[j]),
                                 !.upd = ResumeUpd(fut[j], t, t - start_time[j])]]
  /\ UNCHANGED <<files, tmpf, owner, pool, fut, seenTerminal, lastStatus, dispatched, deleted, track, resp, start_time, ran, call>>

\* the sequence q without the job j
Without(q, j) == SelectSeq(q, LAMBDA x : x # j)


\* AfterTimeoutPhase where the job is handed to the pool again
AfterTimeoutPhase_retry == "processing"

\* the phase in which process_job continues after wait_for has timed out
AfterTimeoutPhase == "timeout"

\* Timeout where the deadline runs from the start of the work function
Timeout_fromstart(j, dropped) ==
  /\ pc[j] = "waiting"
  /\ fut[j].st = "running"
  /\ cur[owner[j]].op = "idle"
  /\ dropped => fut[j].st = "pending"
  /\ fut' = [fut EXCEPT ![j] = [st |-> "timedout", val |-> @.st]]
  /\ pool' = IF dropped THEN [pool EXCEPT ![owner[j]].queue = Without(@, j)] ELSE pool
  /\ pc' = [pc EXCEPT ![j] = "running"]
  /\ cur' = [cur EXCEPT ![owner[j]] = [Idle EXCEPT !.op = "task", !.job = j, !.step = "exists",
                                                   !.phase = AfterTimeoutPhase,
                                                   !.upd = TimeoutUpd]]
  /\ UNCHANGED <<files, tmpf, owner, seenTerminal, lastStatus, dispatched, deleted, track, resp, now, start_time, ran, call>>

\* api.py:208-217, 242-245  wait_for times out before the future is done: it
\* cancels the future and raises TimeoutError in the task.  The executor
\* drops a call that is still in its pending queue (dropped = TRUE) and runs
\* a call it has already taken from it (dropped = FALSE).  The cancelled
\* future remembers whether its call had started.
Timeout(j, dropped) ==
  /\ pc[j] = "waiting"
  /\ fut[j].st \in {"pending", "running"}
  /\ cur[owner[j]].op = "idle"
  /\ dropped => fut[j].st = "pending"
  /\ fut' = [fut EXCEPT ![j] = [st |-> "timedout", val |-> @.st]]
  /\ pool' = IF dropped THEN [pool EXCEPT ![owner[j]].queue = Without(@, j)] ELSE pool
  /\ pc' = [pc EXCEPT ![j] = "running"]
  /\ cur' = [cur EXCEPT ![owner[j]] = [Idle EXCEPT !.op = "task", !.job = j, !.step = "exists",
                                                   !.phase = AfterTimeoutPhase,
                                                   !.upd = TimeoutUpd]]
  /\ UNCHANGED <<files, tmpf, owner, seenTerminal, lastStatus, dispatched, deleted, track, resp, now, start_time, ran, call>>


\* the wall clock at a step of a worker process, where the executions are
\* observed
Elapsed == IF "exec" \in track THEN Later ELSE {now}

\* the observed execution of job j: its work function started at from and
\* returned at to (-1: not yet)
Ran(j, from, to) ==
  IF "exec" \in track THEN [ran EXCEPT ![j] = [from |-> from, to |-> to]] ELSE ran

\* PoolSize with one worker process too many
PoolSize_plus == max_workers + 1

\* ------------------------------------------------- ProcessPoolExecutor
\* the number of worker processes of one pool (api.py:49)
PoolSize == max_workers

\* PoolStart where a free worker process takes the newest call of the queue
PoolStart_lifo(s) ==
  /\ ~pool[s].broken
  /\ pool[s].queue # <<>>
  /\ Cardinality(pool[s].running) < PoolSize
  /\ LET n == Len(pool[s].queue)
         j == pool[s].queue[n] IN
       /\ pool' = [pool EXCEPT ![s].queue = SubSeq(@, 1, n - 1), ![s].running = @ \cup {j}]
       /\ fut' = [fut EXCEPT ![j].st = IF @ = "pending" THEN "running" ELSE @]
       /\ \E t \in Elapsed : now' = t /\ ran' = Ran(j, t, -1)
  /\ UNCHANGED <<files, tmpf, pc, owner, cur, seenTerminal, lastStatus, dispatched, deleted, track, resp, start_time, call>>

\* a free worker process takes the first call of the queue
PoolStart(s) ==
  /\ ~pool[s].broken
  /\ pool[s].queue # <<>>
  /\ Cardinality(pool[s].running) < PoolSize
  /\ LET j == Head(pool[s].queue) IN
       /\ pool' = [pool EXCEPT ![s].queue = Tail(@), ![s].running = @ \cup {j}]
       /\ fut' = [fut EXCEPT ![j].st = IF @ = "pending" THEN "running" ELSE @]
       /\ \E t \in Elapsed : now' = t /\ ran' = Ran(j, t, -1)
  /\ UNCHANGED <<files, tmpf, pc, owner, cur, seenTerminal, lastStatus, dispatched, deleted, track, resp, start_time, call>>

\* WorkReturn where the result of a cancelled call is delivered to the task,
\* which waits for it again
WorkReturn_late(s, j, st, val) ==
  /\ j \in pool[s].running
  /\ pool' = [pool EXCEPT ![s].running = @ \ {j}]
  /\ fut' = [fut EXCEPT ![j] = [st |-> st, val |-> val]]
  /\ pc' = [pc EXCEPT ![j] = IF @ = "done" THEN "waiting" ELSE @]
  /\ \E t \in Elapsed : now' = t /\ ran' = Ran(j, ran[j].from, t)
  /\ UNCHANGED <<files, tmpf, owner, cur, seenTerminal, lastStatus, dispatched, deleted, track, resp, start_time, call>>

\* api.py:167-187  run_analysis_in_process returns: a dictionary with the
\* results, or with str(e) when analyze_games raised.  The result of a call
\* whose future was cancelled is discarded.
WorkReturn(s, j, st, val) ==
  /\ j \in pool[s].running
  /\ pool' = [pool EXCEPT ![s].running = @ \ {j}]
  /\ fut' = [fut EXCEPT ![j] = IF @.st = "running" THEN [st |-> st, val |-> val] ELSE @]
  /\ \E t \in Elapsed : now' = t /\ ran' = Ran(j, ran[j].from, t)
  /\ UNCHANGED <<files, tmpf, pc, owner, cur, seenTerminal, lastStatus, dispatched, deleted, track, resp, start_time, call>>

\* the worker process that runs the call of job v dies: the executor marks
\* itself broken and fails every future that is not done with
\* BrokenProcessPool, the one of v ("crashed") and those of the other calls
\* it runs or holds in its queue
WorkerCrash(s) ==
  /\ \E v \in pool[s].running :
       LET hit == pool[s].running \cup {pool[s].queue[i] : i \in 1..Len(pool[s].queue)} IN
         fut' = [j \in Jobs |-> IF j \in hit /\ fut[j].st \in {"pending", "running"}
                                  THEN [st |-> "broken", val |-> IF j = v THEN "crashed" ELSE ""]
                                  ELSE fut[j]]
  /\ pool' = [pool EXCEPT ![s] = [queue |-> <<>>, running |-> {}, broken |-> TRUE]]
  /\ UNCHANGED <<files, tmpf, pc, owner, cur, seenTerminal, lastStatus, dispatched, deleted, track, resp, now, start_time, ran, call>>

\* ------------------------------------------------------- MistakeClassifier
\* config['mistake_thresholds'] (mistake_classifier.py:15-24): blunder,
\* mistake, inaccuracy and ok are required, the keys of the good moves are
\* optional (a set with no element: key absent).  The first is the
\* configuration of tests/test_basic.py:29-34.
ThresholdConfigs ==
  {[blunder |-> -200, mistake |-> -100, inaccuracy |-> -50, ok |-> 0,
    brilliant_move |-> {}, great_move |-> {}, good_move |-> {}],
   [blunder |-> -200, mistake |-> -100, inaccuracy |-> -50, ok |-> 0,
    brilliant_move |-> {300}, great_move |-> {200}, good_move |-> {100}],
   [blunder |-> -150, mistake |-> -150, inaccuracy |-> 0, ok |-> 0,
    brilliant_move |-> {200}, great_move |-> {200}, good_move |-> {50}]}

\* Optional[float] evaluations in centipawns: None is the empty set
Evals == {{}} \cup {{50 * k} : k \in -EvalSteps..EvalSteps}

\* the float of an evaluation that is not None
Value(e) == CHOOSE v \in e : TRUE

KeyError == "KeyError"

\* classify_move where the boundary of an inaccuracy is exclusive
classify_move_strict(th, eval_before, eval_after) ==
  IF eval_before = {} \/ eval_after = {} THEN "unknown"
  ELSE LET eval_change == Value(eval_after) - Value(eval_before) IN
    IF eval_change <= th.blunder THEN "blunder"
    ELSE IF eval_change <= th.mistake THEN "mistake"
    ELSE IF eval_change < th.inaccuracy THEN "inaccuracy"
    ELSE IF th.brilliant_move = {} THEN KeyError
    ELSE IF eval_change >= Value(th.brilliant_move) THEN "brilliant"
    ELSE IF th.great_move = {} THEN KeyError
    ELSE IF eval_change >= Value(th.great_move) THEN "great"
    ELSE IF th.good_move = {} THEN KeyError
    ELSE IF eval_change >= Value(th.good_move) THEN "good"
    ELSE "ok"

\* mistake_classifier.py:52-69  MistakeClassifier.classify_move; a threshold
\* that is looked up and not configured raises KeyError
classify_move(th, eval_before, eval_after) ==
  IF eval_before = {} \/ eval_after = {} THEN "unknown"
  ELSE LET eval_change == Value(eval_after) - Value(eval_before) IN
    IF eval_change <= th.blunder THEN "blunder"
    ELSE IF eval_change <= th.mistake THEN "mistake"
    ELSE IF eval_change <= th.inaccuracy THEN "inaccuracy"
    ELSE IF th.brilliant_move = {} THEN KeyError
    ELSE IF eval_change >= Value(th.brilliant_move) THEN "brilliant"
    ELSE IF th.great_move = {} THEN KeyError
    ELSE IF eval_change >= Value(th.great_move) THEN "great"
    ELSE IF th.good_move = {} THEN KeyError
    ELSE IF eval_change >= Value(th.good_move) THEN "good"
    ELSE "ok"

\* a classifier with the thresholds call.args[1] is asked to classify the
\* move with the evaluations call.args[2] and call.args[3]
ClassifyMove ==
  /\ call.fn = "" /\ call.args # <<>>
  /\ call' = [call EXCEPT !.fn = "classify_move",
                          !.out = classify_move(call.args[1], call.args[2], call.args[3])]
  /\ UNCHANGED <<files, tmpf, pc, owner, cur, pool, fut, seenTerminal, lastStatus, dispatched,
                 deleted, track, resp, now, start_time, ran>>

\* the labels classify_move returns (mistake_classifier.py:52-69)
Labels == {"blunder", "mistake", "inaccuracy", "brilliant", "great", "good", "ok", "unknown"}

\* the openings of the classified moves
Openings == {"Sicilian", "French"}

\* classified moves: dictionaries with the keys mistake_type and opening
Moves == [mistake_type : Labels, opening : Openings]

\* the lists of at most n moves
MoveLists(n) == UNION {[1..k -> Moves] : k \in 0..n}

\* mistake_classifier.py:123, 166  the key under which a label is counted:
\* "inaccuracies" if mistake_type == "inaccuracy" else f"{mistake_type}s"
StatsKey(mistake_type) ==
  IF mistake_type = "inaccuracy" THEN "inaccuracies" ELSE mistake_type \o "s"

\* mistake_classifier.py:125-126, 182-183  if stats_key in stats: += 1
Count(stats, key) ==
  IF key \in DOMAIN stats THEN [stats EXCEPT ![key] = @ + 1] ELSE stats

\* the quotient count / total, kept as the pair of its operands
Rate(count, total) == IF total > 0 THEN <<count, total>> ELSE <<0, 1>>

\* mistake_classifier.py:128-145, 186-203  the rates added to the counts
WithRates(stats) ==
  [k \in DOMAIN stats \cup {"blunder_rate", "mistake_rate", "inaccuracy_rate", "good_rate",
                            "great_rate", "brilliant_rate", "ok_rate"} |->
     CASE k = "blunder_rate" -> Rate(stats["blunders"], stats["total_moves"])
       [] k = "mistake_rate" -> Rate(stats["mistakes"], stats["total_moves"])
       [] k = "inaccuracy_rate" -> Rate(stats["inaccuracies"], stats["total_moves"])
       [] k = "good_rate" -> Rate(stats["goods"], stats["total_moves"])
       [] k = "great_rate" -> Rate(stats["greats"], stats["total_moves"])
       [] k = "brilliant_rate" -> Rate(stats["brilliants"], stats["total_moves"])
       [] k = "ok_rate" -> Rate(stats["oks"], stats["total_moves"])
       [] OTHER -> stats[k]]

\* mistake_classifier.py:108-118  the dictionary get_mistake_stats starts from
NewStats(total) ==
  [k \in {"total_moves", "blunders", "mistakes", "inaccuracies", "goods", "greats",
          "brilliants", "oks", "unknowns"} |-> IF k = "total_moves" THEN total ELSE 0]

\* mistake_classifier.py:121-126  the loop of get_mistake_stats over the moves
RECURSIVE CountMoves(_, _)
CountMoves(moves_data, stats) ==
  IF moves_data = <<>> THEN stats
  ELSE CountMoves(Tail(moves_data), Count(stats, StatsKey(Head(moves_data).mistake_type)))

\* mistake_classifier.py:97-147  MistakeClassifier.get_mistake_stats
get_mistake_stats(moves_data) ==
  WithRates(CountMoves(moves_data, NewStats(Len(moves_data))))

\* mistake_classifier.py:169-179  the dictionary get_mistake_by_opening
\* creates for an opening it sees for the first time
NewOpeningStats ==
  [k \in {"total_moves", "blunders", "mistakes", "inaccuracies", "goods", "greats",
          "brilliants", "oks", "unknown"} |-> 0]

\* mistake_classifier.py:163-183  the loop of get_mistake_by_opening
RECURSIVE CountByOpening(_, _)
CountByOpening(moves_data, opening_stats) ==
  IF moves_data = <<>> THEN opening_stats
  ELSE LET move == Head(moves_data)
           opening == move.opening
           seen == [o \in DOMAIN opening_stats \cup {opening} |->
                      IF o \in DOMAIN opening_stats THEN opening_stats[o]
                                                     ELSE NewOpeningStats]
           counted == Count([seen[opening] EXCEPT !["total_moves"] = @ + 1],
                            StatsKey(move.mistake_type)) IN
         CountByOpening(Tail(moves_data), [seen EXCEPT ![opening] = counted])

\* mistake_classifier.py:149-205  MistakeClassifier.get_mistake_by_opening
get_mistake_by_opening(moves_data) ==
  LET opening_stats == CountByOpening(moves_data, <<>>) IN
    [o \in DOMAIN opening_stats |-> WithRates(opening_stats[o])]

\* the statistics of the list of moves call.args[1] are computed
GetMistakeStats ==
  /\ call.fn = "moves"
  /\ call' = [call EXCEPT !.fn = "get_mistake_stats", !.out = get_mistake_stats(call.args[1])]
  /\ UNCHANGED <<files, tmpf, pc, owner, cur, pool, fut, seenTerminal, lastStatus, dispatched,
                 deleted, track, resp, now, start_time, ran>>

\* the statistics per opening of the list of moves call.args[1] are computed
GetMistakeByOpening ==
  /\ call.fn = "moves"
  /\ call' = [call EXCEPT !.fn = "get_mistake_by_opening",
                          !.out = get_mistake_by_opening(call.args[1])]
  /\ UNCHANGED <<files, tmpf, pc, owner, cur, pool, fut, seenTerminal, lastStatus, dispatched,
                 deleted, track, resp, now, start_time, ran>>

\* ---------------------------------------------------- RecommendationEngine
\* Rates are counted in tenths (1 is 0.1), priority scores in units of
\* 1 / (10 * BoostMoves) and confidences in units of 1 / ConfidenceMoves, so
\* that the arithmetic of the engine is integer arithmetic.

\* config['recommendation'] (recommendation_engine.py:16-20); the first is the
\* configuration of tests/test_basic.py:35-39
RecommendationConfigs ==
  {[top_openings |-> 5, min_games_per_opening |-> 1, confidence_threshold |-> 7],
   [top_openings |-> 1, min_games_per_opening |-> 3, confidence_threshold |-> 7]}

OpeningNames == {"Sicilian Defense", "French Defense", "Caro-Kann Defense"}

\* the statistics of one opening; a rate that is the empty set is a key the
\* dictionary does not have.  tests/test_basic.py:82-88 is
\* total_moves 50 with the rates 0.1, 0.2, 0.3 and 0.4
OpeningStats ==
  [total_moves : {0, 2, 50}, blunder_rate : {{}, {1}}, mistake_rate : {{0}, {2}},
   inaccuracy_rate : {{0}, {3}}, good_move_rate : {{4}}]

\* the dictionaries of at most n openings, as the sequences of their items
StatsDicts(n) ==
  UNION {{d \in [1..k -> [opening : OpeningNames, stats : OpeningStats]] :
            \A a, b \in 1..k : a # b => d[a].opening # d[b].opening} : k \in 0..n}

\* dict.get(key, 0.0)
Get(value) == IF value = {} THEN 0 ELSE CHOOSE v \in value : TRUE

Min(a, b) == IF a <= b THEN a ELSE b

\* recommendation_engine.py:63-82  _calculate_priority_score:
\* (3 blunder_rate + 2 mistake_rate + inaccuracy_rate) * (1 + min(total_moves / 50, 1))
calculate_priority_score(stats) ==
  (3 * Get(stats.blunder_rate) + 2 * Get(stats.mistake_rate) + Get(stats.inaccuracy_rate))
    * (BoostMoves + Min(stats.total_moves, BoostMoves))

\* recommendation_engine.py:84-97  _get_recommendation_type (0.15, 0.25, 0.4)
get_recommendation_type(stats) ==
  IF 10 * Get(stats.blunder_rate) > 15 THEN "critical_weakness"
  ELSE IF 10 * Get(stats.mistake_rate) > 25 THEN "major_weakness"
  ELSE IF Get(stats.inaccuracy_rate) > 4 THEN "moderate_weakness"
  ELSE "minor_improvement"

\* recommendation_engine.py:99-122  _get_study_focus (0.1, 0.2, 0.3)
get_study_focus(stats) ==
  LET focus_areas ==
        (IF Get(stats.blunder_rate) > 1 THEN <<"tactical_awareness", "calculation">> ELSE <<>>)
        \o (IF Get(stats.mistake_rate) > 2
              THEN <<"positional_understanding", "opening_principles">> ELSE <<>>)
        \o (IF Get(stats.inaccuracy_rate) > 3 THEN <<"move_quality", "planning">> ELSE <<>>) IN
    IF focus_areas = <<>> THEN <<"general_improvement">> ELSE focus_areas

\* recommendation_engine.py:124-131  _calculate_confidence
calculate_confidence(stats) == Min(stats.total_moves, ConfidenceMoves)

\* recommendation_engine.py:43-54  the recommendation for one opening
Recommendation(opening, stats) ==
  [opening |-> opening,
   priority_score |-> calculate_priority_score(stats),
   total_moves |-> stats.total_moves,
   blunder_rate |-> Get(stats.blunder_rate),
   mistake_rate |-> Get(stats.mistake_rate),
   inaccuracy_rate |-> Get(stats.inaccuracy_rate),
   good_move_rate |-> Get(stats.good_move_rate),
   recommendation_type |-> get_recommendation_type(stats),
   study_focus |-> get_study_focus(stats),
   confidence |-> calculate_confidence(stats)]

\* recommendation_engine.py:34-55  the loop over the items of the statistics
RECURSIVE Recommend(_, _)
Recommend(config, items) ==
  IF items = <<>> THEN <<>>
  ELSE LET opening == Head(items).opening
           stats == Head(items).stats
           rest == Recommend(config, Tail(items)) IN
         IF stats.total_moves < config.min_games_per_opening THEN rest
         ELSE IF calculate_priority_score(stats) > 0
           THEN <<Recommendation(opening, stats)>> \o rest
           ELSE rest

\* GoesBefore where the lowest score comes first
GoesBefore_lowest(x, y) == x.priority_score <= y.priority_score

\* recommendation_engine.py:58  sort(key=priority_score, reverse=True): x,
\* which stood before y, stays before y unless the score of y is higher
GoesBefore(x, y) == x.priority_score >= y.priority_score

\* the sorted list with the recommendation r, which stood after all of its
\* elements, put in its place
RECURSIVE Insert(_, _)
Insert(sorted, r) ==
  IF sorted = <<>> THEN <<r>>
  ELSE IF GoesBefore(Head(sorted), r) THEN <<Head(sorted)>> \o Insert(Tail(sorted), r)
  ELSE <<r>> \o sorted

\* list.sort, which is stable
RECURSIVE Sort(_)
Sort(recommendations) ==
  IF recommendations = <<>> THEN <<>>
  ELSE LET n == Len(recommendations) IN
         Insert(Sort(SubSeq(recommendations, 1, n - 1)), recommendations[n])

\* recommendation_engine.py:22-61  RecommendationEngine.generate_recommendations
generate_recommendations(config, opening_mistake_stats) ==
  LET recommendations == Sort(Recommend(config, opening_mistake_stats)) IN
    SubSeq(recommendations, 1, Min(Len(recommendations), config.top_openings))

\* an engine with the configuration call.args[1] is asked for the
\* recommendations for the statistics call.args[2]
GenerateRecommendations ==
  /\ call.fn = "stats"
  /\ call' = [call EXCEPT !.fn = "generate_recommendations",
                          !.out = generate_recommendations(call.args[1], call.args[2])]
  /\ UNCHANGED <<files, tmpf, pc, owner, cur, pool, fut, seenTerminal, lastStatus, dispatched,
                 deleted, track, resp, now, start_time, ran>>

\* ------------------------------------------------------- server processes
\* ServerCrash where the handler the process was in goes on after the restart
ServerCrash_survives(s) ==
  /\ pc' = [j \in Jobs |->
              IF owner[j] # s THEN pc[j]
              ELSE CASE pc[j] = "submitting" -> "aborted"
                     [] pc[j] \in {"scheduled", "running", "waiting"} -> "lost"
                     [] OTHER -> pc[j]]
  /\ cur' = cur
  /\ pool' = [pool EXCEPT ![s] = NoPool]
  /\ fut' = [j \in Jobs |-> IF owner[j] = s THEN NoFut ELSE fut[j]]
  /\ UNCHANGED <<files, tmpf, owner, seenTerminal, lastStatus, dispatched, deleted, track, resp, now, start_time, ran, call>>

\* api.py:43-49, run_api.py:24-30  server process s is killed and started
\* again: the handler it was in, its background tasks, its futures and its
\* pool are gone; the job files and the staged uploads are what they were.
\* The new process creates the directory if missing and a new pool, and reads
\* no job file.  The tasks of the jobs it had accepted are lost, and a
\* Submit that had not answered is aborted.
ServerCrash(s) ==
  /\ pc' = [j \in Jobs |->
              IF owner[j] # s THEN pc[j]
              ELSE CASE pc[j] = "submitting" -> "aborted"
                     [] pc[j] \in {"scheduled", "running", "waiting"} -> "lost"
                     [] OTHER -> pc[j]]
  /\ cur' = [cur EXCEPT ![s] = Idle]
  /\ pool' = [pool EXCEPT ![s] = NoPool]
  /\ fut' = [j \in Jobs |-> IF owner[j] = s THEN NoFut ELSE fut[j]]
  /\ UNCHANGED <<files, tmpf, owner, seenTerminal, lastStatus, dispatched, deleted, track, resp, now, start_time, ran, call>>

\* ---------------------------------------------------------- shutdown_event
\* api.py:147-151  the server runs the shutdown handler of process s, which
\* calls process_pool.shutdown(wait=True) in the event loop: no handler or
\* task of s runs until it returns
Shutdown(s) ==
  /\ cur[s].op = "idle"
  /\ cur' = [cur EXCEPT ![s] = [Idle EXCEPT !.op = "shutdown"]]
  /\ UNCHANGED <<files, tmpf, pc, owner, pool, fut, seenTerminal, lastStatus, dispatched, deleted, track, resp, now, start_time, ran, call>>

\* ShutdownReturn where the executor is shut down with wait=False
ShutdownReturn_nowait(s) ==
  /\ cur[s].op = "shutdown"
  /\ cur' = [cur EXCEPT ![s] = [Idle EXCEPT !.op = "stopped"]]
  /\ UNCHANGED <<files, tmpf, pc, owner, pool, fut, seenTerminal, lastStatus, dispatched, deleted, track, resp, now, start_time, ran, call>>

\* api.py:151-152  shutdown(wait=True) returns: the executor has run the
\* calls of its queue and joined its worker processes, which end when the
\* calls they run have returned.  The handler returns and the process stops.
ShutdownReturn(s) ==
  /\ cur[s].op = "shutdown"
  /\ pool[s].queue = <<>> /\ pool[s].running = {}
  /\ cur' = [cur EXCEPT ![s] = [Idle EXCEPT !.op = "stopped"]]
  /\ UNCHANGED <<files, tmpf, pc, owner, pool, fut, seenTerminal, lastStatus, dispatched, deleted, track, resp, now, start_time, ran, call>>

\* --------------------------------------------------------- get_job_status
\* GetStatus where a read of a record stamps it as updated
GetStatus_touch(s, j) ==
  /\ cur[s].op = "idle"
  /\ Known(j)
  /\ LET f == files[j] IN
       /\ seenTerminal' =
            IF f.kind = "json" /\ f.data.status \in Terminal /\ seenTerminal[j] = {}
              THEN [seenTerminal EXCEPT ![j] = {f.data.status}]
              ELSE seenTerminal
       /\ files' = IF f.kind = "json"
                     THEN [files EXCEPT ![j].data.message = <<"Job status retrieved">>]
                     ELSE files
       /\ CASE f.kind = "none" -> Respond("get", j, 404, "", {})
            [] f.kind = "partial" -> Respond("get", j, 500, "", {})
            [] OTHER -> Respond("get", j, 200, f.data.status, {})
  /\ UNCHANGED <<tmpf, pc, owner, cur, pool, fut, lastStatus, dispatched, deleted, track, now, start_time, ran, call>>

\* api.py:316-328, 97-111  load_job and the response: a read that finds the
\* record returns its status (404 without a file, 500 for a file that
\* json.load cannot parse)
GetStatus(s, j) ==
  /\ cur[s].op = "idle"
  /\ Known(j)
  /\ LET f == files[j] IN
       /\ seenTerminal' =
            IF f.kind = "json" /\ f.data.status \in Terminal /\ seenTerminal[j] = {}
              THEN [seenTerminal EXCEPT ![j] = {f.data.status}]
              ELSE seenTerminal
       /\ CASE f.kind = "none" -> Respond("get", j, 404, "", {})
            [] f.kind = "partial" -> Respond("get", j, 500, "", {})
            [] OTHER -> Respond("get", j, 200, f.data.status, {})
  /\ UNCHANGED <<files, tmpf, pc, owner, cur, pool, fut, lastStatus, dispatched, deleted, track, now, start_time, ran, call>>

\* -------------------------------------------------------------- list_jobs
\* api.py:129-137, 336-347  list_all_jobs loads every file of the directory;
\* a file that json.load cannot parse fails the whole request
ListJobs(s) ==
  /\ cur[s].op = "idle"
  /\ IF \E j \in Jobs : files[j].kind = "partial"
       THEN Respond("list", 0, 500, "", {})
       ELSE Respond("list", 0, 200, "", {files[j].data.job_id : j \in {k \in Jobs : files[k].kind = "json"}})
  /\ UNCHANGED <<files, tmpf, pc, owner, cur, pool, fut, seenTerminal, lastStatus, dispatched,
                 deleted, track, now, start_time, ran, call>>

\* ------------------------------------------------------------ health_check
\* api.py:376-387  the answer 'healthy' with the reading of the clock; no job
\* file is looked at
Health(s) ==
  /\ cur[s].op = "idle"
  /\ \E t \in Later : now' = t
  /\ Respond("health", 0, 200, "healthy", {})
  /\ UNCHANGED <<files, tmpf, pc, owner, cur, pool, fut, seenTerminal, lastStatus, dispatched,
                 deleted, track, start_time, ran, call>>

\* ------------------------------------------------------------- delete_job
\* api.py:358-360, 100-101  load_job: job_file.exists(); 404 without a file
Delete(s, j) ==
  /\ cur[s].op = "idle"
  /\ Known(j)
  /\ IF files[j].kind = "none"
       THEN /\ cur' = cur
            /\ Respond("delete", j, 404, "", {})
       ELSE /\ cur' = [cur EXCEPT ![s] = [Idle EXCEPT !.op = "delete", !.job = j, !.step = "read"]]
            /\ resp' = resp
  /\ UNCHANGED <<files, tmpf, pc, owner, pool, fut, seenTerminal, lastStatus, dispatched,
                 deleted, track, now, start_time, ran, call>>

\* api.py:103-111, 362-368  load_job reads the file (an exception of open or
\* json.load is answered with 500), then the staged upload is unlinked
DeleteRead(s) ==
  /\ cur[s].op = "delete" /\ cur[s].step = "read"
  /\ LET j == cur[s].job IN
       IF files[j].kind = "json"
         THEN /\ tmpf' = [tmpf EXCEPT ![j] = FALSE]
              /\ cur' = [cur EXCEPT ![s].step = "exists"]
              /\ resp' = resp
         ELSE /\ cur' = [cur EXCEPT ![s] = Idle]
              /\ tmpf' = tmpf
              /\ Respond("delete", j, 500, "", {})
  /\ UNCHANGED <<files, pc, owner, pool, fut, seenTerminal, lastStatus, dispatched, deleted, track, now, start_time, ran, call>>

\* api.py:141-145, 371-374  delete_job_file: job_file.exists(); without the
\* file it returns False and the answer is 500 'Failed to delete job'
DeleteExists(s) ==
  /\ cur[s].op = "delete" /\ cur[s].step = "exists"
  /\ IF files[cur[s].job].kind = "none"
       THEN /\ cur' = [cur EXCEPT ![s] = Idle]
            /\ Respond("delete", cur[s].job, 500, "", {})
       ELSE /\ cur' = [cur EXCEPT ![s].step = "unlink"]
            /\ resp' = resp
  /\ UNCHANGED <<files, tmpf, pc, owner, pool, fut, seenTerminal, lastStatus, dispatched,
                 deleted, track, now, start_time, ran, call>>

\* api.py:143-144, 372  delete_job_file: job_file.unlink() (FileNotFoundError
\* when the file is gone by now), then 'deleted successfully'
DeleteUnlink(s) ==
  /\ cur[s].op = "delete" /\ cur[s].step = "unlink"
  /\ LET j == cur[s].job IN
       IF files[j].kind = "none"
         THEN /\ Respond("delete", j, 500, "", {})
              /\ UNCHANGED <<files, deleted>>
         ELSE /\ files' = [files EXCEPT ![j] = NoFile]
              /\ deleted' = [deleted EXCEPT ![j] = @ \/ "delete" \in track]
              /\ Respond("delete", j, 200, "", {})
  /\ cur' = [cur EXCEPT ![s] = Idle]
  /\ UNCHANGED <<tmpf, pc, owner, pool, fut, seenTerminal, lastStatus, dispatched, track, now, start_time, ran, call>>

\* ------------------------------------------------------------------- Next
AllIdle == \A t \in Servers : cur[t].op = "idle"

\* Dispatch and execution: jobs are submitted and driven to their end, and no
\* record is deleted.  The handlers of the server processes run one at a
\* time: a server process takes a step only while no other server process is
\* inside a handler, and the pools and the timers take theirs between two
\* handlers.
Next ==
  \/ \E s \in Servers : AllIdle /\ SubmitOpen(s, MaxJobs)
  \/ \E s \in Servers : SubmitDump(s)
  \/ \E j \in Jobs : AllIdle /\ ProcessJobStart(j)
  \/ \E s \in Servers : LoadJobExists(s)
  \/ \E s \in Servers : LoadJobRead(s)
  \/ \E s \in Servers : SaveJobOpen(s)
  \/ \E s \in Servers : SaveJobDump(s)
  \/ \E s \in Servers : RunInExecutor(s)
  \/ \E j \in Jobs : AllIdle /\ Resume(j)
  \/ \E j \in Jobs, dropped \in BOOLEAN : AllIdle /\ Timeout(j, dropped)
  \/ \E s \in Servers : AllIdle /\ PoolStart(s)
  \/ \E s \in Servers, j \in Jobs, r \in Results : AllIdle /\ WorkReturn(s, j, "ok", r)
  \/ \E s \in Servers, j \in Jobs, m \in Errors : AllIdle /\ WorkReturn(s, j, "err", m)


Spec == Init /\ [][Next]_vars

\* The store under concurrency: the file operations of the server processes
\* interleave freely, clients read and delete records, and a worker process
\* can die.
NextRace ==
  \/ \E s \in Servers : SubmitOpen(s, RaceJobs)
  \/ \E s \in Servers : SubmitDump(s)
  \/ \E j \in Jobs : ProcessJobStart(j)
  \/ \E s \in Servers : LoadJobExists(s)
  \/ \E s \in Servers : LoadJobRead(s)
  \/ \E s \in Servers : SaveJobOpen(s)
  \/ \E s \in Servers : SaveJobDump(s)
  \/ \E s \in Servers : RunInExecutor(s)
  \/ \E j \in Jobs : Resume(j)
  \/ \E j \in Jobs, dropped \in BOOLEAN : Timeout(j, dropped)
  \/ \E s \in Servers : PoolStart(s)
  \/ \E s \in Servers, j \in Jobs, r \in Results : WorkReturn(s, j, "ok", r)
  \/ \E s \in Servers, j \in Jobs, m \in Errors : WorkReturn(s, j, "err", m)
  \/ \E s \in Servers : WorkerCrash(s)
  \/ \E s \in Servers, j \in Jobs : GetStatus(s, j)
  \/ \E s \in Servers, j \in Jobs : Delete(s, j)
  \/ \E s \in Servers : DeleteRead(s)
  \/ \E s \in Servers : DeleteExists(s)
  \/ \E s \in Servers : DeleteUnlink(s)

SpecRace == Init /\ [][NextRace]_vars

\* Dispatch and execution with worker processes that can die: Next and
\* WorkerCrash.
NextCrash ==
  \/ \E s \in Servers : AllIdle /\ SubmitOpen(s, MaxJobs)
  \/ \E s \in Servers : SubmitDump(s)
  \/ \E j \in Jobs : AllIdle /\ ProcessJobStart(j)
  \/ \E s \in Servers : LoadJobExists(s)
  \/ \E s \in Servers : LoadJobRead(s)
  \/ \E s \in Servers : SaveJobOpen(s)
  \/ \E s \in Servers : SaveJobDump(s)
  \/ \E s \in Servers : RunInExecutor(s)
  \/ \E j \in Jobs : AllIdle /\ Resume(j)
  \/ \E j \in Jobs, dropped \in BOOLEAN : AllIdle /\ Timeout(j, dropped)
  \/ \E s \in Servers : AllIdle /\ PoolStart(s)
  \/ \E s \in Servers, j \in Jobs, r \in Results : AllIdle /\ WorkReturn(s, j, "ok", r)
  \/ \E s \in Servers, j \in Jobs, m \in Errors : AllIdle /\ WorkReturn(s, j, "err", m)
  \/ \E s \in Servers : AllIdle /\ WorkerCrash(s)

SpecCrash == Init /\ [][NextCrash]_vars

\* Dispatch and execution with server processes that can be killed at any
\* point and are started again: Next and ServerCrash.
NextRestart ==
  \/ \E s \in Servers : AllIdle /\ SubmitOpen(s, RestartJobs)
  \/ \E s \in Servers : SubmitDump(s)
  \/ \E j \in Jobs : AllIdle /\ ProcessJobStart(j)
  \/ \E s \in Servers : LoadJobExists(s)
  \/ \E s \in Servers : LoadJobRead(s)
  \/ \E s \in Servers : SaveJobOpen(s)
  \/ \E s \in Servers : SaveJobDump(s)
  \/ \E s \in Servers : RunInExecutor(s)
  \/ \E j \in Jobs : AllIdle /\ Resume(j)
  \/ \E j \in Jobs, dropped \in BOOLEAN : AllIdle /\ Timeout(j, dropped)
  \/ \E s \in Servers : AllIdle /\ PoolStart(s)
  \/ \E s \in Servers, j \in Jobs, r \in Results : AllIdle /\ WorkReturn(s, j, "ok", r)
  \/ \E s \in Servers, j \in Jobs, m \in Errors : AllIdle /\ WorkReturn(s, j, "err", m)
  \/ \E s \in Servers : ServerCrash(s)

SpecRestart == Init /\ [][NextRestart]_vars

\* The query and cleanup surface next to the dispatcher: Next with the reads
\* (GetStatus, List, Health) and Delete, the responses to List and Health
\* observed.
\* The handlers run one at a time, as in Next.
NextRead ==
  \/ \E s \in Servers : AllIdle /\ SubmitOpen(s, ReadJobs)
  \/ \E s \in Servers : SubmitDump(s)
  \/ \E j \in Jobs : AllIdle /\ ProcessJobStart(j)
  \/ \E s \in Servers : LoadJobExists(s)
  \/ \E s \in Servers : LoadJobRead(s)
  \/ \E s \in Servers : SaveJobOpen(s)
  \/ \E s \in Servers : SaveJobDump(s)
  \/ \E s \in Servers : RunInExecutor(s)
  \/ \E j \in Jobs : AllIdle /\ Resume(j)
  \/ \E j \in Jobs, dropped \in BOOLEAN : AllIdle /\ Timeout(j, dropped)
  \/ \E s \in Servers : AllIdle /\ PoolStart(s)
  \/ \E s \in Servers, j \in Jobs, r \in Results : AllIdle /\ WorkReturn(s, j, "ok", r)
  \/ \E s \in Servers, j \in Jobs, m \in Errors : AllIdle /\ WorkReturn(s, j, "err", m)
  \/ \E s \in Servers, j \in Jobs : AllIdle /\ GetStatus(s, j)
  \/ \E s \in Servers : AllIdle /\ ListJobs(s)
  \/ \E s \in Servers : AllIdle /\ Health(s)
  \/ \E s \in Servers, j \in Jobs : AllIdle /\ Delete(s, j)
  \/ \E s \in Servers : DeleteRead(s)
  \/ \E s \in Servers : DeleteExists(s)
  \/ \E s \in Servers : DeleteUnlink(s)

InitRead == Start /\ track = {"list", "health"}

SpecRead == InitRead /\ [][NextRead]_vars

\* The move classifier on its own: a configuration of thresholds and the two
\* evaluations of a move are drawn, and the move is classified.
InitClassify ==
  /\ files = [j \in Jobs |-> NoFile]
  /\ tmpf = [j \in Jobs |-> FALSE]
  /\ pc = [j \in Jobs |-> "unborn"]
  /\ owner = [j \in Jobs |-> 0]
  /\ cur = [s \in Servers |-> Idle]
  /\ pool = [s \in Servers |-> NoPool]
  /\ fut = [j \in Jobs |-> NoFut]
  /\ seenTerminal = [j \in Jobs |-> {}]
  /\ lastStatus = [j \in Jobs |-> ""]
  /\ dispatched = [j \in Jobs |-> 0]
  /\ deleted = [j \in Jobs |-> FALSE]
  /\ resp = NoResp
  /\ now = 0
  /\ start_time = [j \in Jobs |-> 0]
  /\ ran = [j \in Jobs |-> NoRan]
  /\ track = {}
  /\ \E th \in ThresholdConfigs, eval_before \in Evals, eval_after \in Evals :
       call = [fn |-> "", args |-> <<th, eval_before, eval_after>>, out |-> ""]

NextClassify == ClassifyMove

SpecClassify == InitClassify /\ [][NextClassify]_vars

\* The statistics of the classifier on their own: a list of classified moves
\* is drawn, and its statistics are computed, overall or per opening.
InitStats ==
  /\ files = [j \in Jobs |-> NoFile]
  /\ tmpf = [j \in Jobs |-> FALSE]
  /\ pc = [j \in Jobs |-> "unborn"]
  /\ owner = [j \in Jobs |-> 0]
  /\ cur = [s \in Servers |-> Idle]
  /\ pool = [s \in Servers |-> NoPool]
  /\ fut = [j \in Jobs |-> NoFut]
  /\ seenTerminal = [j \in Jobs |-> {}]
  /\ lastStatus = [j \in Jobs |-> ""]
  /\ dispatched = [j \in Jobs |-> 0]
  /\ deleted = [j \in Jobs |-> FALSE]
  /\ resp = NoResp
  /\ now = 0
  /\ start_time = [j \in Jobs |-> 0]
  /\ ran = [j \in Jobs |-> NoRan]
  /\ track = {}
  /\ \E moves_data \in MoveLists(MaxMoves) :
       call = [fn |-> "moves", args |-> <<moves_data>>, out |-> ""]

NextStats ==
  \/ GetMistakeStats
  \/ GetMistakeByOpening

SpecStats == InitStats /\ [][NextStats]_vars

\* The recommendation engine on its own: a configuration and the statistics
\* of some openings are drawn, and the recommendations are generated.
InitRecommend ==
  /\ files = [j \in Jobs |-> NoFile]
  /\ tmpf = [j \in Jobs |-> FALSE]
  /\ pc = [j \in Jobs |-> "unborn"]
  /\ owner = [j \in Jobs |-> 0]
  /\ cur = [s \in Servers |-> Idle]
  /\ pool = [s \in Servers |-> NoPool]
  /\ fut = [j \in Jobs |-> NoFut]
  /\ seenTerminal = [j \in Jobs |-> {}]
  /\ lastStatus = [j \in Jobs |-> ""]
  /\ dispatched = [j \in Jobs |-> 0]
  /\ deleted = [j \in Jobs |-> FALSE]
  /\ resp = NoResp
  /\ now = 0
  /\ start_time = [j \in Jobs |-> 0]
  /\ ran = [j \in Jobs |-> NoRan]
  /\ track = {}
  /\ \E config \in RecommendationConfigs, opening_mistake_stats \in StatsDicts(MaxOpenings) :
       call = [fn |-> "stats", args |-> <<config, opening_mistake_stats>>, out |-> ""]

NextRecommend == GenerateRecommendations

SpecRecommend == InitRecommend /\ [][NextRecommend]_vars

\* Dispatch and execution with the starts and returns of the work functions
\* observed
InitStarts == Start /\ track = {"exec"}

SpecStarts == InitStarts /\ [][Next]_vars

\* no server process is inside a request handler or a step of a task
NoHandler == \A t \in Servers : cur[t].op \in {"idle", "shutdown", "stopped"}

\* Dispatch and execution with server processes that shut down: Next, with
\* the shutdown handler run at any point between two handlers.  The pool of
\* a process that shuts down goes on working.
NextShutdown ==
  \/ \E s \in Servers : NoHandler /\ SubmitOpen(s, ShutdownJobs)
  \/ \E s \in Servers : SubmitDump(s)
  \/ \E j \in Jobs : NoHandler /\ ProcessJobStart(j)
  \/ \E s \in Servers : LoadJobExists(s)
  \/ \E s \in Servers : LoadJobRead(s)
  \/ \E s \in Servers : SaveJobOpen(s)
  \/ \E s \in Servers : SaveJobDump(s)
  \/ \E s \in Servers : RunInExecutor(s)
  \/ \E j \in Jobs : NoHandler /\ Resume(j)
  \/ \E j \in Jobs, dropped \in BOOLEAN : NoHandler /\ Timeout(j, dropped)
  \/ \E s \in Servers : NoHandler /\ PoolStart(s)
  \/ \E s \in Servers, j \in Jobs, r \in Results : NoHandler /\ WorkReturn(s, j, "ok", r)
  \/ \E s \in Servers, j \in Jobs, m \in Errors : NoHandler /\ WorkReturn(s, j, "err", m)
  \/ \E s \in Servers : NoHandler /\ Shutdown(s)
  \/ \E s \in Servers : ShutdownReturn(s)

SpecShutdown == Init /\ [][NextShutdown]_vars

\* Dispatch and execution under a wall clock: Next, with the time of every
\* reading of the clock chosen freely from the last reading on.
NextClock ==
  \/ \E s \in Servers : AllIdle /\ SubmitOpen(s, ClockJobs)
  \/ \E s \in Servers : SubmitDump(s)
  \/ \E j \in Jobs : AllIdle /\ ProcessJobStart(j)
  \/ \E s \in Servers : LoadJobExists(s)
  \/ \E s \in Servers : LoadJobRead(s)
  \/ \E s \in Servers : SaveJobOpen(s)
  \/ \E s \in Servers : SaveJobDump(s)
  \/ \E s \in Servers : RunInExecutor(s)
  \/ \E j \in Jobs : AllIdle /\ Resume(j)
  \/ \E j \in Jobs, dropped \in BOOLEAN : AllIdle /\ Timeout(j, dropped)
  \/ \E s \in Servers : AllIdle /\ PoolStart(s)
  \/ \E s \in Servers, j \in Jobs, r \in Results : AllIdle /\ WorkReturn(s, j, "ok", r)
  \/ \E s \in Servers, j \in Jobs, m \in Errors : AllIdle /\ WorkReturn(s, j, "err", m)

InitClock == Start /\ track = {"clock"}

SpecClock == InitClock /\ [][NextClock]_vars

\* the same, with the executions of the work functions observed
InitExec == Start /\ track = {"clock", "exec"}

SpecExec == InitExec /\ [][NextClock]_vars

\* The API as its clients see it: the responses to Submit and Delete are
\* observed, a submission can carry any file name, and ids that no Submit has
\* returned can be deleted.  The handlers run one at a time, as in Next.
NextApi ==
  \/ \E s \in Servers, name \in FileNames : AllIdle /\ IsPgnName(name) /\ SubmitOpen(s, ApiJobs)
  \/ \E s \in Servers, name \in FileNames : AllIdle /\ SubmitInvalid(s, name)
  \/ \E s \in Servers : SubmitDump(s)
  \/ \E j \in Jobs : AllIdle /\ ProcessJobStart(j)
  \/ \E s \in Servers : LoadJobExists(s)
  \/ \E s \in Servers : LoadJobRead(s)
  \/ \E s \in Servers : SaveJobOpen(s)
  \/ \E s \in Servers : SaveJobDump(s)
  \/ \E s \in Servers : RunInExecutor(s)
  \/ \E j \in Jobs : AllIdle /\ Resume(j)
  \/ \E j \in Jobs, dropped \in BOOLEAN : AllIdle /\ Timeout(j, dropped)
  \/ \E s \in Servers : AllIdle /\ PoolStart(s)
  \/ \E s \in Servers, j \in Jobs, r \in Results : AllIdle /\ WorkReturn(s, j, "ok", r)
  \/ \E s \in Servers, j \in Jobs, m \in Errors : AllIdle /\ WorkReturn(s, j, "err", m)
  \/ \E s \in Servers, j \in Jobs : AllIdle /\ Delete(s, j)
  \/ \E s \in Servers : DeleteRead(s)
  \/ \E s \in Servers : DeleteExists(s)
  \/ \E s \in Servers : DeleteUnlink(s)

InitApi == Start /\ track = {"submit", "delete"}

SpecApi == InitApi /\ [][NextApi]_vars

\* The store under concurrency as its clients see it: NextRace with the
\* responses to every operation observed, and listings.
NextObs ==
  \/ \E s \in Servers : SubmitOpen(s, RaceJobs)
  \/ \E s \in Servers : SubmitDump(s)
  \/ \E j \in Jobs : ProcessJobStart(j)
  \/ \E s \in Servers : LoadJobExists(s)
  \/ \E s \in Servers : LoadJobRead(s)
  \/ \E s \in Servers : SaveJobOpen(s)
  \/ \E s \in Servers : SaveJobDump(s)
  \/ \E s \in Servers : RunInExecutor(s)
  \/ \E j \in Jobs : Resume(j)
  \/ \E j \in Jobs, dropped \in BOOLEAN : Timeout(j, dropped)
  \/ \E s \in Servers : PoolStart(s)
  \/ \E s \in Servers, j \in Jobs, r \in Results : WorkReturn(s, j, "ok", r)
  \/ \E s \in Servers, j \in Jobs, m \in Errors : WorkReturn(s, j, "err", m)
  \/ \E s \in Servers, j \in Jobs : GetStatus(s, j)
  \/ \E s \in Servers : ListJobs(s)
  \/ \E s \in Servers, j \in Jobs : Delete(s, j)
  \/ \E s \in Servers : DeleteRead(s)
  \/ \E s \in Servers : DeleteExists(s)
  \/ \E s \in Servers : DeleteUnlink(s)

InitObs == Start /\ track = {"get", "list", "delete"}

SpecObs == InitObs /\ [][NextObs]_vars

\* ----------------------------------------------------------------- helpers
Ended(j) == pc[j] \in {"done", "raised"}

IsRecord(j) == files[j].kind = "json"

HasStatus(j, st) == IsRecord(j) /\ files[j].data.status = st

\* Submit has returned the id j
Returned(j) == pc[j] \notin {"unborn", "submitting"}

InQueue(s, j) == \E i \in 1..Len(pool[s].queue) : pool[s].queue[i] = j

\* ------------------------------------------------------------------ claims
\* C1: once a read has returned Completed or Failed for a job, every later
\* read that finds the record returns that same status.
C1_TerminalStability ==
  \A j \in Jobs :
    (seenTerminal[j] # {} /\ IsRecord(j)) => files[j].data.status \in seenTerminal[j]

\* a read returned Failed for a job that timed out while its work function
\* was running, and the work function has returned since
C1_Witness ==
  \E j \in Jobs :
    /\ seenTerminal[j] = {FAILED}
    /\ fut[j] = [st |-> "timedout", val |-> "running"]
    /\ pc[j] = "done"
    /\ \A s \in Servers : j \notin pool[s].running
    /\ HasStatus(j, FAILED)

\* C2: every change of the stored status of a job is Pending -> Processing,
\* Processing -> Completed or Processing -> Failed (after the creation as
\* Pending).
C2_Transitions ==
  [][\A j \in Jobs :
       lastStatus'[j] # lastStatus[j] =>
         <<lastStatus[j], lastStatus'[j]>> \in
           {<<"", PENDING>>, <<PENDING, PROCESSING>>,
            <<PROCESSING, COMPLETED>>, <<PROCESSING, FAILED>>}]_vars

\* a record has gone from Pending over Processing to Completed
C2_Witness == \E j \in Jobs : lastStatus[j] = COMPLETED /\ pc[j] = "done" /\ HasStatus(j, COMPLETED)

\* C3: in every stored record the result is present iff the status is
\* Completed, the error is present iff the status is Failed, and never both.
C3_ResultErrorExclusive ==
  \A j \in Jobs :
    IsRecord(j) =>
      LET d == files[j].data IN
        /\ (d.results # {}) <=> (d.status = COMPLETED)
        /\ (d.error # {}) <=> (d.status = FAILED)
        /\ ~(d.results # {} /\ d.error # {})

\* a Completed record with a result exists
C3_Witness == \E j \in Jobs : HasStatus(j, COMPLETED) /\ files[j].data.results = {"score42"}

\* C4: a job is handed to the pool at most once, and not before Submit has
\* scheduled its background task.
C4_AtMostOneDispatch ==
  \A j \in Jobs :
    /\ dispatched[j] <= 1
    /\ pc[j] \in {"unborn", "submitting", "scheduled"} => dispatched[j] = 0

\* a job that timed out and whose record was deleted was dispatched once
C4_Witness ==
  \E j \in Jobs :
    dispatched[j] = 1 /\ fut[j].st = "timedout" /\ Ended(j) /\ files[j].kind = "none"

C6_Claim ==
  Cardinality(UNION {pool[s].running : s \in Servers}) <= max_workers

\* C7: a job whose background task has ended and whose record is not deleted
\* has a record with status Completed or Failed.
C7_Claim ==
  \A j \in Jobs :
    (Ended(j) /\ files[j].kind # "none") =>
      (IsRecord(j) /\ files[j].data.status \in Terminal)

\* C8: a job whose wait timed out ends with a Failed record whose error and
\* message are 'Analysis timed out after N seconds' and that has no result.
C8_TimeoutFailed ==
  \A j \in Jobs :
    (fut[j].st = "timedout" /\ Ended(j) /\ files[j].kind # "none") =>
      /\ HasStatus(j, FAILED)
      /\ files[j].data.message =
           <<"Analysis timed out after ", ToString(timeout_seconds), " seconds">>
      /\ files[j].data.error = {files[j].data.message}
      /\ files[j].data.results = {}

\* the task of a timed-out job has ended and its record is Failed
C8_Witness ==
  \E j \in Jobs : fut[j].st = "timedout" /\ pc[j] = "done" /\ HasStatus(j, FAILED)

\* C9: a background task that ended with an exception leaves the existing
\* record of its job Failed.
C9_Claim ==
  \A j \in Jobs :
    (pc[j] = "raised" /\ files[j].kind # "none") => HasStatus(j, FAILED)

\* C10: a job whose work function raised an error with message m ends with a
\* Failed record whose error is m and that has no result.
C10_WorkErrorFailed ==
  \A j \in Jobs :
    (fut[j].st = "err" /\ Ended(j) /\ files[j].kind # "none") =>
      /\ HasStatus(j, FAILED)
      /\ files[j].data.error = {<<fut[j].val>>}
      /\ files[j].data.results = {}

\* the work function raised, the task has ended and the record is Failed
C10_Witness ==
  \E j \in Jobs : fut[j].st = "err" /\ pc[j] = "done" /\ HasStatus(j, FAILED)

\* C11: a job whose work function returned r before the timeout, whose task
\* has ended and whose record exists has a Completed record with result r,
\* completed_at and processing_time set and no error.
C11_Claim ==
  \A j \in Jobs :
    (fut[j].st = "ok" /\ Ended(j) /\ files[j].kind # "none") =>
      /\ HasStatus(j, COMPLETED)
      /\ files[j].data.results = {fut[j].val}
      /\ files[j].data.completed_at # {}
      /\ files[j].data.processing_time # {}
      /\ files[j].data.error = {}

\* C12: once a Delete of a job has answered 'deleted successfully', the job
\* has no record (a read answers NotFound and a listing omits it), whatever
\* the status updates of its background task do afterwards.
C12_Claim == \A j \in Jobs : deleted[j] => files[j].kind = "none"

\* C13: a Delete of an id that has no record answers NotFound and changes
\* nothing in the store; a Delete of an id that has a record answers Deleted
\* and removes it, and the next Delete of the same id answers NotFound.
C13_Claim ==
  [][(resp' # resp /\ resp'.op = "delete") =>
       LET j == resp'.job IN
         /\ IF files[j].kind = "none"
              THEN resp'.code = 404 /\ files' = files /\ tmpf' = tmpf
              ELSE resp'.code = 200 /\ files'[j].kind = "none"
         /\ (resp.op = "delete" /\ resp.job = j /\ resp.code = 200) => resp'.code = 404]_vars

\* C14: a submission that is rejected because its file name fails the check
\* changes nothing: no record is created or changed, no upload is staged, no
\* background task is scheduled and nothing is handed to a pool.
C14_RejectedUnchanged ==
  [][(resp' # resp /\ resp'.op = "submit" /\ resp'.code = 400) =>
       UNCHANGED <<files, tmpf, pc, owner, cur, pool, fut, lastStatus, dispatched>>]_vars

\* a submission was rejected while the record of an accepted job exists
C14_Witness ==
  /\ resp.op = "submit" /\ resp.code = 400
  /\ \E j \in Jobs : IsRecord(j) /\ tmpf[j]

\* C15: the background task of a job is scheduled only after its Pending
\* record has been written; before that record exists the job has no status
\* update, is not handed to a pool and is not executed; Submit answers with
\* the id and status Pending at the moment it schedules the task, before the
\* work function has started, and its answer is never blocked.
C15_PendingBeforeSchedule ==
  /\ [](\A j \in Jobs :
          /\ pc[j] \notin {"unborn", "submitting"} => lastStatus[j] # ""
          /\ pc[j] = "scheduled" => lastStatus[j] = PENDING
          /\ lastStatus[j] = "" =>
               /\ dispatched[j] = 0 /\ fut[j] = NoFut
               /\ \A s \in Servers : j \notin pool[s].running /\ ~InQueue(s, j))
  /\ [](\A s \in Servers : cur[s].op = "submit" => ENABLED SubmitDump(s))
  /\ [][(resp' # resp /\ resp'.op = "submit" /\ resp'.code = 200) =>
          LET j == resp'.job IN
            /\ resp'.status = PENDING
            /\ pc[j] = "submitting" /\ pc'[j] = "scheduled"
            /\ files'[j] = JsonFile(Encode(NewRecord(j, cur[owner[j]].at)))
            /\ fut'[j] = NoFut /\ dispatched'[j] = 0]_vars

\* Submit has answered with status Pending for a job whose task is scheduled
\* and whose work function has not started
C15_Witness ==
  \E j \in Jobs :
    /\ resp = [NoResp EXCEPT !.op = "submit", !.job = j, !.code = 200, !.status = PENDING, !.seq = resp.seq]
    /\ pc[j] = "scheduled" /\ HasStatus(j, PENDING) /\ fut[j] = NoFut

\* C16: from the return of Submit until a Delete of the id has succeeded,
\* every GetStatus of the id finds the record and every List contains the id
\* (once: a listing is a set of ids, one file per id); ids are never reused.
C16_Claim ==
  [][/\ (resp' # resp /\ resp'.op = "get" /\ Returned(resp'.job) /\ ~deleted[resp'.job]) =>
          resp'.code = 200
     /\ (resp' # resp /\ resp'.op = "list") =>
          \A j \in Jobs : (Returned(j) /\ ~deleted[j]) => (resp'.code = 200 /\ j \in resp'.ids)
     /\ \A j \in Jobs : (pc'[j] = "submitting" /\ pc[j] # "submitting") => pc[j] = "unborn"]_vars

\* C17: a GetStatus or List that runs while another server process is
\* between the open and the end of the write of a record does not fail and
\* does not see a truncated file: a GetStatus of that record answers with a
\* complete record (or NotFound when there is none), a List succeeds.
C17_Claim ==
  [][(resp' # resp /\ resp'.op \in {"get", "list"}) =>
       \A t \in Servers :
         (cur[t].op \in {"submit", "task"} /\ cur[t].step = "dump"
            /\ (resp'.op = "get" => cur[t].job = resp'.job)) =>
           resp'.code \in {200, 404}]_vars

\* C18: when the worker process of one job dies, only that job becomes
\* Failed because of it: no other job, queued or running at that moment or
\* submitted later, gets a Failed record with the error of the broken pool.
C18_Claim ==
  \A j \in Jobs :
    (HasStatus(j, FAILED) /\ files[j].data.error = {FailedMsg(<<BrokenProcessPool>>)}) =>
      fut[j] = [st |-> "broken", val |-> "crashed"]

\* C19: a job that is handed to a pool enters the end of the pool's queue
\* and its task waits, however many worker processes are busy; a job that
\* starts to execute is the first of the queue; nothing else reorders the
\* queue (a timed-out call can only leave it).
C19_Fifo ==
  [][\A s \in Servers :
       LET q == pool[s].queue
           q2 == pool'[s].queue
           handed == cur[s].op = "task" /\ cur[s].step = "handoff" /\ cur'[s] # cur[s]
           started == pool'[s].running \ pool[s].running IN
         /\ handed =>
              /\ q2 = Append(q, cur[s].job)
              /\ pc'[cur[s].job] = "waiting"
              /\ fut'[cur[s].job].st = "pending"
              /\ files' = files
         /\ \A j \in started : q # <<>> /\ j = Head(q) /\ q2 = Tail(q)
         /\ (~handed /\ started = {}) => (q2 = q \/ \E j \in Jobs : q2 = Without(q, j))]_vars

\* every worker process of a pool is busy and a job that was handed to the
\* pool waits in its queue behind another one, its task waiting
C19_Witness ==
  \E s \in Servers :
    /\ Cardinality(pool[s].running) = PoolSize
    /\ Len(pool[s].queue) >= 1
    /\ \A i \in 1..Len(pool[s].queue) :
         pc[pool[s].queue[i]] = "waiting" /\ fut[pool[s].queue[i]].st = "pending"

\* C20: after the timeout of a job its task neither waits for the work
\* function again nor depends on it: the steps of the Failed update are
\* enabled whatever the pool does, and once the task has ended the record is
\* Failed with the timeout error and without a result and no later step, a
\* return of the abandoned work function included, changes it.
C20_TimeoutAbandons ==
  /\ [](\A j \in Jobs :
          fut[j].st = "timedout" =>
            \/ pc[j] = "done"
            \/ /\ pc[j] = "running"
               /\ cur[owner[j]].op = "task" /\ cur[owner[j]].job = j
               /\ cur[owner[j]].phase = "timeout"
               /\ ENABLED (\/ LoadJobExists(owner[j]) \/ LoadJobRead(owner[j])
                           \/ SaveJobOpen(owner[j]) \/ SaveJobDump(owner[j])))
  /\ [][\A j \in Jobs :
          (fut[j].st = "timedout" /\ pc[j] = "done") =>
            /\ HasStatus(j, FAILED)
            /\ files[j].data.error = {TimeoutMsg} /\ files[j].data.results = {}
            /\ files'[j] = files[j] /\ pc'[j] = "done" /\ fut'[j] = fut[j]]_vars

\* the task of a job that timed out while its work function was running has
\* ended with the Failed record while the work function still runs
C20_Witness ==
  \E j \in Jobs :
    /\ fut[j] = [st |-> "timedout", val |-> "running"]
    /\ pc[j] = "done" /\ lastStatus[j] = FAILED
    /\ j \in pool[owner[j]].running

C27_Claim ==
  \A j \in Jobs :
    IsRecord(j) =>
      LET d == files[j].data IN
        /\ d.status \in {PENDING, PROCESSING} =>
             (d.completed_at = {} /\ d.processing_time = {})
        /\ d.status \in {COMPLETED, FAILED} =>
             (d.completed_at # {} /\ d.processing_time # {})

C23_Claim ==
  \A j \in Jobs :
    (pc[j] = "lost" /\ lastStatus[j] # "") =>
      (IsRecord(j) /\ files[j].data.status = lastStatus[j])

\* C24: once the server process of a job was killed, a Pending or Processing
\* record of that job stays as it is: no step updates it, and the restarted
\* process hands the job to no pool.
C24_Orphaned ==
  /\ [](\A j \in Jobs :
          pc[j] = "lost" =>
            /\ fut[j] = NoFut
            /\ \A s \in Servers :
                 /\ j \notin pool[s].running /\ ~InQueue(s, j)
                 /\ ~(cur[s].op # "idle" /\ cur[s].job = j))
  /\ [][\A j \in Jobs :
          (pc[j] = "lost" /\ IsRecord(j) /\ files[j].data.status \in {PENDING, PROCESSING}) =>
            /\ files'[j] = files[j]
            /\ pc'[j] = "lost"
            /\ dispatched'[j] = dispatched[j]]_vars

\* a job whose server process was killed while its record was Processing
\* stays Processing while a job submitted after the restart has completed
C24_Witness ==
  \E j, k \in Jobs :
    /\ pc[j] = "lost" /\ HasStatus(j, PROCESSING)
    /\ owner[k] = owner[j] /\ k > j
    /\ pc[k] = "done" /\ HasStatus(k, COMPLETED)

\* C25: the staged upload of a job whose id Submit has returned exists as
\* long as no Delete of the id has begun to remove it, whatever the status
\* of the record, and once a Delete has answered 'deleted successfully'
\* neither the record nor the staged upload exists.
C25_Claim ==
  \A j \in Jobs :
    /\ (Returned(j) /\ ~deleted[j]
          /\ \A s \in Servers : ~(cur[s].op = "delete" /\ cur[s].job = j)) => tmpf[j]
    /\ deleted[j] => (files[j].kind = "none" /\ ~tmpf[j])

C28_Claim ==
  \A j \in Jobs :
    (HasStatus(j, COMPLETED) /\ ran[j].to # -1) =>
      files[j].data.processing_time = {ran[j].to - ran[j].from}

\* C29: the job_id and created_at of a record are those of its creation in
\* every later write; every update that writes the record sets updated_at to
\* the clock reading of that update, which is not earlier than the updated_at
\* it replaces; so updated_at is never earlier than created_at.
C29_Timestamps ==
  /\ [](\A j \in Jobs :
          IsRecord(j) =>
            LET d == Decode(files[j].data) IN
              /\ d.job_id = j
              /\ d.created_at.v <= d.updated_at.v
              /\ d.updated_at.v <= now)
  /\ [][/\ \A s \in Servers :
             (cur[s].op = "submit" /\ cur'[s] # cur[s]) =>
               LET d == Decode(files'[cur[s].job].data) IN
                 d.created_at = Dt(cur[s].at) /\ d.updated_at = Dt(cur[s].at)
        /\ \A s \in Servers :
             (cur[s].op = "task" /\ cur[s].step = "open" /\ cur'[s] # cur[s]) =>
               /\ cur[s].loaded = Decode(files[cur[s].job].data)
               /\ now = cur[s].at
        /\ \A s \in Servers :
             (cur[s].op = "task" /\ cur[s].step = "dump" /\ files'[cur[s].job].kind = "json") =>
               LET d == Decode(files'[cur[s].job].data) IN
                 /\ d.job_id = cur[s].loaded.job_id
                 /\ d.created_at = cur[s].loaded.created_at
                 /\ d.updated_at = Dt(cur[s].at)
                 /\ d.updated_at.v >= cur[s].loaded.updated_at.v]_vars

\* a Processing record that was created at one reading of the clock and
\* updated at a later one, with the clock gone further since
C29_Witness ==
  \E j \in Jobs :
    /\ HasStatus(j, PROCESSING)
    /\ files[j].data.created_at.v = 0
    /\ files[j].data.updated_at.v = 1
    /\ now = MaxClock

\* C30: classify_move answers 'unknown' when an evaluation is missing, and
\* otherwise classifies the change c = eval_after - eval_before: 'blunder'
\* for c <= blunder, 'mistake' for blunder < c <= mistake, 'inaccuracy' for
\* mistake < c <= inaccuracy; with the thresholds -200/-100/-50 the changes
\* -50, -150 and -350 are an inaccuracy, a mistake and a blunder.
C30_Classify ==
  call.fn = "classify_move" =>
    LET th == call.args[1]
        eval_before == call.args[2]
        eval_after == call.args[3] IN
      IF eval_before = {} \/ eval_after = {}
        THEN call.out = "unknown"
        ELSE LET c == Value(eval_after) - Value(eval_before) IN
          /\ c <= th.blunder => call.out = "blunder"
          /\ (th.blunder < c /\ c <= th.mistake) => call.out = "mistake"
          /\ (th.mistake < c /\ c <= th.inaccuracy) => call.out = "inaccuracy"
          /\ (th.blunder = -200 /\ th.mistake = -100 /\ th.inaccuracy = -50) =>
               /\ c = -50 => call.out = "inaccuracy"
               /\ c = -150 => call.out = "mistake"
               /\ c = -350 => call.out = "blunder"

\* the first call of the test: evaluations 100 and 50 under the thresholds of
\* the test configuration, a change of exactly the inaccuracy threshold
C30_Witness ==
  /\ call.fn = "classify_move"
  /\ call.args[1].inaccuracy = -50 /\ call.args[1].good_move = {}
  /\ call.args[2] = {100} /\ call.args[3] = {50}
  /\ call.out = "inaccuracy"

\* C37: under every configuration that has the keys blunder, mistake,
\* inaccuracy and ok, classify_move returns a classification label for every
\* pair of evaluations and raises nothing.
C37_Claim ==
  call.fn = "classify_move" =>
    call.out \in {"blunder", "mistake", "inaccuracy", "brilliant", "great", "good", "ok",
                  "unknown"}

\* the counts per category of one dictionary of statistics, added up; the
\* unknown moves are counted under the key the dictionary has for them
CategorySum(stats) ==
  stats["blunders"] + stats["mistakes"] + stats["inaccuracies"] + stats["goods"]
    + stats["greats"] + stats["brilliants"] + stats["oks"]
    + (IF "unknowns" \in DOMAIN stats THEN stats["unknowns"] ELSE stats["unknown"])

\* C38: in the statistics of get_mistake_stats, and in those of every opening
\* of get_mistake_by_opening, the counts per category add up to total_moves.
C38_Claim ==
  /\ call.fn = "get_mistake_stats" => CategorySum(call.out) = call.out["total_moves"]
  /\ call.fn = "get_mistake_by_opening" =>
       \A o \in DOMAIN call.out : CategorySum(call.out[o]) = call.out[o]["total_moves"]

\* the positions of the items of the statistics that qualify: enough moves
\* and a positive priority score
Qualifying(config, items) ==
  {i \in 1..Len(items) :
     /\ items[i].stats.total_moves >= config.min_games_per_opening
     /\ calculate_priority_score(items[i].stats) > 0}

\* out lists qualifying openings, each once and with its priority score,
\* from the highest score to the lowest: as many as there are, but at most
\* top_openings, and none that is left out has a higher score than one listed
ListsQualifying(config, items, out) ==
  LET q == Qualifying(config, items) IN
    /\ Len(out) = Min(Cardinality(q), config.top_openings)
    /\ \A k \in 1..Len(out) :
         \E i \in q : /\ out[k].opening = items[i].opening
                      /\ out[k].priority_score = calculate_priority_score(items[i].stats)
    /\ \A k, l \in 1..Len(out) :
         /\ k < l => out[k].priority_score >= out[l].priority_score
         /\ k # l => out[k].opening # out[l].opening
    /\ \A i \in q, k \in 1..Len(out) :
         (\A l \in 1..Len(out) : out[l].opening # items[i].opening) =>
           calculate_priority_score(items[i].stats) <= out[k].priority_score

\* the statistics are those of one opening, with a mistake rate that is not 0
OneOpeningWithMistakes(items) ==
  /\ Len(items) = 1
  /\ \/ Get(items[1].stats.blunder_rate) > 0
     \/ Get(items[1].stats.mistake_rate) > 0
     \/ Get(items[1].stats.inaccuracy_rate) > 0

\* C31: generate_recommendations returns the empty list for empty
\* statistics, the qualifying openings by descending priority score cut to
\* top_openings for any statistics, and a non-empty list for statistics of
\* one opening with non-zero mistake rates.
C31_Claim ==
  call.fn = "generate_recommendations" =>
    /\ call.args[2] = <<>> => call.out = <<>>
    /\ ListsQualifying(call.args[1], call.args[2], call.out)
    /\ OneOpeningWithMistakes(call.args[2]) => call.out # <<>>

\* C31 (amended): as C31, with a non-empty list promised for statistics of
\* one opening with non-zero mistake rates only if the opening has at least
\* min_games_per_opening moves and top_openings is at least 1.
C31_Amended ==
  call.fn = "generate_recommendations" =>
    /\ call.args[2] = <<>> => call.out = <<>>
    /\ ListsQualifying(call.args[1], call.args[2], call.out)
    /\ (/\ OneOpeningWithMistakes(call.args[2])
        /\ call.args[2][1].stats.total_moves >= call.args[1].min_games_per_opening
        /\ call.args[1].top_openings >= 1) => call.out # <<>>

\* two qualifying openings, the second with the higher score, were given to
\* an engine that returns one: it returned the second
C31_Witness ==
  /\ call.fn = "generate_recommendations"
  /\ call.args[1].top_openings = 1
  /\ Len(call.args[2]) = 2 /\ Cardinality(Qualifying(call.args[1], call.args[2])) = 2
  /\ calculate_priority_score(call.args[2][1].stats)
       < calculate_priority_score(call.args[2][2].stats)
  /\ Len(call.out) = 1 /\ call.out[1].opening = call.args[2][2].opening

\* C32: the shutdown handler of a server process returns only when no call
\* handed to its pool is running or queued any more, calls abandoned by a
\* timeout included; and while it has not returned, either it can return or
\* a call of the pool is running or can be started.
C32_ShutdownDrains ==
  /\ [](\A s \in Servers :
          /\ cur[s].op = "stopped" => (pool[s].queue = <<>> /\ pool[s].running = {})
          /\ cur[s].op = "shutdown" =>
               \/ ENABLED ShutdownReturn(s)
               \/ pool[s].running # {}
               \/ ENABLED PoolStart(s))
  /\ [][\A s \in Servers :
          /\ (cur[s].op = "shutdown" /\ cur'[s].op = "stopped") =>
               (pool[s].queue = <<>> /\ pool[s].running = {})
          /\ cur[s].op = "shutdown" => cur'[s].op \in {"shutdown", "stopped"}
          /\ cur[s].op = "stopped" => (cur'[s].op = "stopped" /\ pool'[s] = pool[s])]_vars

\* a process has shut down after its pool ran a call that had been abandoned
\* by a timeout and that returned while the shutdown handler was waiting
C32_Witness ==
  \E s \in Servers, j \in Jobs :
    /\ cur[s].op = "stopped" /\ owner[j] = s
    /\ fut[j] = [st |-> "timedout", val |-> "running"]
    /\ pc[j] = "done" /\ HasStatus(j, FAILED)

\* C33: wait_for's deadline runs from the hand-off to the pool, which follows
\* the Processing update: a job becomes waiting with a pending call, and from
\* then on, started or not, its timeout can fire; a timeout that fires while
\* the call is still queued takes it from the queue, so that the work
\* function never starts, and the task ends with the record Failed with the
\* timeout error.
C33_DeadlineFromHandoff ==
  /\ [](\A j \in Jobs :
          /\ (pc[j] = "waiting" /\ fut[j].st = "pending" /\ AllIdle) =>
               ENABLED Timeout(j, TRUE)
          /\ (fut[j].st = "timedout" /\ pc[j] = "done") =>
               (HasStatus(j, FAILED) /\ files[j].data.error = {TimeoutMsg}))
  /\ [][\A j \in Jobs :
          /\ (pc[j] # "waiting" /\ pc'[j] = "waiting") =>
               (fut'[j].st = "pending" /\ lastStatus[j] = PROCESSING /\ ran[j] = NoRan)
          /\ (pc[j] = "waiting" /\ fut'[j].st = "timedout") =>
               cur'[owner[j]].upd = TimeoutUpd
          /\ (pc[j] = "waiting" /\ fut'[j].st = "timedout" /\ ~InQueue(owner[j], j)' /\ ran[j] = NoRan) =>
               \A s \in Servers : j \notin pool'[s].running
          /\ (fut[j].st = "timedout" /\ ~InQueue(owner[j], j) /\ ran[j] = NoRan) =>
               ran'[j] = NoRan]_vars

\* a job has ended Failed with the timeout error and its work function never
\* started, the only slot of the pool being taken by another job whose work
\* function still runs
C33_Witness ==
  \E j \in Jobs, k \in Jobs :
    /\ k # j
    /\ fut[j] = [st |-> "timedout", val |-> "pending"] /\ ran[j] = NoRan
    /\ pc[j] = "done" /\ HasStatus(j, FAILED) /\ files[j].data.error = {TimeoutMsg}
    /\ owner[k] = owner[j] /\ k \in pool[owner[k]].running /\ ran[k].to = -1

\* the jobs whose work function has started in a worker process and has not
\* returned, abandoned by a timeout or not
Executing == {j \in Jobs : ran[j].from # -1 /\ ran[j].to = -1}

\* C34: a slot is taken from the start of a work function to its return,
\* timeout or not: while max_workers work functions have started and not
\* returned, no other job starts to execute.
C34_Claim ==
  [][Cardinality(Executing) >= max_workers => Executing' \subseteq Executing]_vars

\* C35: a Delete neither cancels nor prevents the execution of its job: the
\* job is handed to the pool once and no more, a task that has ended has
\* handed it, and a record that does not exist comes to exist only by the
\* Submit that creates it, never by an update of the dispatcher.
C35_Claim ==
  /\ [](\A j \in Jobs :
          /\ dispatched[j] <= 1
          /\ Ended(j) => dispatched[j] = 1)
  /\ [][\A j \in Jobs :
          (files[j].kind = "none" /\ files'[j].kind # "none") =>
            \E s \in Servers : cur[s].op = "idle" /\ cur'[s].op = "submit" /\ cur'[s].job = j]_vars

\* C36: a Delete call that does not come upon a half-written record ends
\* with Deleted or with NotFound, and when a Delete of an id has answered
\* Deleted, a Delete of the same id that was under way answers NotFound.
C36_Claim ==
  [][(resp' # resp /\ resp'.op = "delete") =>
       LET j == resp'.job IN
         /\ files[j].kind # "partial" => resp'.code \in {200, 404}
         /\ (/\ resp.op = "delete" /\ resp.job = j /\ resp.code = 200
             /\ \E s \in Servers : cur[s].op = "delete" /\ cur[s].job = j /\ cur'[s].op = "idle") =>
              resp'.code = 404]_vars

=============================================================================
